---- MODULE Spec2Model ----
(***************************************************************************)
(* A model of the linux-pkg-harvest pipeline: the collectors (fetch and    *)
(* parse of RPM repodata), the enrichment loop of DataProcessor            *)
(* (upstream resolution and libyear), the batched upsert of                *)
(* DatabaseManager, and the run script that composes them.                 *)
(*                                                                         *)
(* Python values are modelled as follows.  None in a text field is the     *)
(* string NULL; an optional number (a date as a day number, a libyear in   *)
(* thousandths of a year) is the empty tuple when None and <<n>> when n.   *)
(***************************************************************************)
EXTENDS Integers, Sequences, FiniteSets, TLC

VARIABLES
    \* ---- the database (MariaDB) ----
    table,          \* committed rows of the packages table
    tx,             \* rows as seen inside the open transaction
    conn,           \* "none", "open", "lost", "closed": the connection of get_cursor
    next_id,        \* AUTO_INCREMENT counter of packages.id
    now,            \* CURRENT_TIMESTAMP: a logical clock, one tick per call
    \* ---- one call of DatabaseManager.save_packages_batch ----
    db_pc,          \* "idle", "connect", "loop", "returned"
    packages,       \* the list of package dictionaries handed to the call
    repository_id,  \* the repository the call writes for
    idx,            \* position of the for-loops (1-based index of the next record)
    saved_count,    \* the counter the call returns
    batch_log,      \* saved_count as logged after each batch (line 316)
    \* ---- DataProcessor.save_to_database ----
    enr_pc,         \* "idle", "enrich", "saving", "returned"
    pkg_i,          \* position of the enrichment loop (index of the next package)
    collector_name, \* argument of save_to_database
    distribution_version,   \* argument of save_to_database
    registry,       \* the upstream registries (GitHub and PyPI) as the run sees them
    enrich_log,     \* per enriched package: the lookups made and who wrote what
    \* ---- the collectors (FedoraCollector, OpenEulerCollector) ----
    config,         \* the collector's configuration and the state of its servers
    tz,             \* the local time zone of the machine, seconds east of UTC
    src_i,          \* position of the loop over the repos
    fetch_log,      \* per source read: how its fetch and parse ended
    \* ---- one call of _fetch_repodata / RepodataFetcher.fetch, request by request ----
    f_pc,           \* "idle", "repomd", "primary": the request the call is at
    attempt,        \* number of the attempt of that request, from 0
    gets,           \* how many GETs each URL has received so far
    net_log,        \* the attempts and the sleeps of the call, in order
    fetch_results,  \* what each finished call gave back
    \* ---- two runs inside save_packages_batch at the same time ----
    writers,        \* per run: position, list, rows written under lock, counter
    commit_log,     \* the statements that were committed, in commit order
    \* ---- LibYearCalculator.calculate_libyear called on its own ----
    calc,           \* the last call: its arguments and what it returned
    \* ---- RepodataParser.parse called on the listing ----
    demo,           \* what each call of RepodataParser.parse returned
    \* ---- scripts/run_collector.py, main ----
    pc,             \* "start", "collect", "collected", "save", "finalize", "done"
    repository,     \* the row of the repository table for this collector and version
    sync_logs,      \* the rows of the sync_logs table
    final_status,   \* the status main last handed to update_repository_sync_status
    exit_code,      \* NULL while running, then "0" or "1"
    \* ---- history of the calls (for the properties only) ----
    calls,          \* one entry per returned call
    offered,        \* indexes of the records cursor.execute was called for
    fail_at         \* 0, or the index of the record being written when the
                    \* connection was lost; Len(packages)+1 for a failed commit

db_vars == <<table, tx, conn, next_id, now>>
call_vars == <<db_pc, packages, repository_id, idx, saved_count, batch_log>>
hist_vars == <<calls, offered, fail_at>>
enr_vars == <<enr_pc, pkg_i, collector_name, distribution_version, registry, enrich_log>>
col_vars == <<config, tz, src_i, fetch_log>>
main_vars == <<pc, repository, sync_logs, final_status, exit_code>>
fetch_vars == <<f_pc, attempt, gets, net_log, fetch_results>>
conc_vars == <<writers, commit_log>>
calc_vars == <<calc>>
demo_vars == <<demo>>
vars == <<db_vars, call_vars, hist_vars, enr_vars, col_vars, main_vars, fetch_vars, conc_vars, calc_vars, demo_vars>>

----------------------------------------------------------------------------
\* Bounds of the model.

\* batch_size as passed by the model's callers (the code's default is 500).
BatchSize == 2
\* Longest list of packages handed to save_packages_batch.
MaxBatchLen == 3
\* How many times the same list is written in a row.
MaxCalls == 2

----------------------------------------------------------------------------
\* Values.

NULL == "None"
\* A key a dictionary does not hold.
MISSING == "<missing>"
NoNum == <<>>
Some(n) == <<n>>

Min(a, b) == IF a < b THEN a ELSE b

\* Python truthiness of a text value: None and "" are falsy.
Truthy(s) == s # NULL /\ s # ""

\* dict.get(key): None for a key the dictionary does not hold.
Get(d, key) == IF d[key] = MISSING THEN NULL ELSE d[key]

\* A package dictionary as the collectors build it (fedora.py 299-317) and
\* save_to_database enriches it.  display_name repeats package_name and
\* description is free text no operation reads: both are left out.
Package(name, version, website, source_url, sysdate, upver, update, lang) ==
    [package_name |-> name, version |-> version, website |-> website,
     source_url |-> source_url, system_release_date |-> sysdate,
     upstream_version |-> upver, upstream_release_date |-> update,
     libyear |-> NoNum, days_outdated |-> NoNum, language |-> lang,
     is_outdated |-> FALSE, collector_name |-> MISSING,
     distribution_version |-> MISSING]

----------------------------------------------------------------------------
\* The repository table (models.py, Repository.get_table_schema): the one row
\* of this collector and version, if it exists.
NoRepository ==
    [exists |-> FALSE, id |-> 0, last_sync_time |-> NULL, last_sync_status |-> NULL]

\* No run is inside save_packages_batch.
NoWriters == <<>>

\* calculate_libyear has not been called.
NoCalc == <<>>

\* RepodataParser.parse has not been called.
NoDemo == <<>>

\* No GET made yet.
NoGets == [repomd |-> 0, primary |-> 0]

\* A configuration without the version asked for.
NoConfig == [version_found |-> FALSE, repos |-> <<>>, sources_template |-> ""]

----------------------------------------------------------------------------
\* The packages table (models.py, Package.get_table_schema).

\* The columns of UNIQUE KEY unique_package.
RowKey(r) == <<r.repository_id, r.package_name, r.version>>

\* The rows an INSERT of p for repository rid conflicts with.
Conflicts(rows, p, rid) ==
    {r \in rows : RowKey(r) = <<rid, p.package_name, p.version>>}

\* The NOT NULL columns: an explicit NULL there makes the statement fail.
RowRejected(p) == Get(p, "package_name") = NULL \/ Get(p, "version") = NULL

\* The row an INSERT creates from the params tuple (db_manager.py 291-306).
NewRow(p, rid, id, ts) ==
    [id |-> id, repository_id |-> rid,
     package_name |-> p.package_name, version |-> p.version,
     upstream_version |-> Get(p, "upstream_version"),
     upstream_release_date |-> p.upstream_release_date,
     system_release_date |-> p.system_release_date,
     libyear |-> p.libyear, days_outdated |-> p.days_outdated,
     source_url |-> p.source_url, language |-> Get(p, "language"),
     website |-> p.website, is_outdated |-> p.is_outdated,
     last_updated |-> ts]

\* ON DUPLICATE KEY UPDATE: every non-key column takes VALUES(column), the id
\* and the key stay, last_updated is refreshed.
UpdatedRow(r, p, ts) == NewRow(p, r.repository_id, r.id, ts)

UpsertRow_AlwaysInsert(rows, p, rid, id, ts) == rows \cup {NewRow(p, rid, id, ts)}

UpsertRow_KeepOld(rows, p, rid, id, ts) ==
    IF Conflicts(rows, p, rid) # {} THEN rows
    ELSE rows \cup {NewRow(p, rid, id, ts)}

\* INSERT ... ON DUPLICATE KEY UPDATE of one record (db_manager.py 270-308).
UpsertRow(rows, p, rid, id, ts) ==
    IF Conflicts(rows, p, rid) # {}
    THEN {IF r \in Conflicts(rows, p, rid) THEN UpdatedRow(r, p, ts) ELSE r : r \in rows}
    ELSE rows \cup {NewRow(p, rid, id, ts)}

\* The number of the batch record i belongs to (range(0, total, batch_size)).
BatchOf(i) == ((i - 1) \div BatchSize) + 1
\* Whether record i is the last one of its batch.
EndsBatch(i, total) == i % BatchSize = 0 \/ i = total

----------------------------------------------------------------------------
\* The collectors (collectors/rpm/fedora.py, collectors/rpm/openeuler.py).
\*
\* A repo of the configuration together with what its server holds:
\*   metadata_url  the configured URL ("" when the key is absent),
\*   repomd_net    the outcome of each successive GET of repodata/repomd.xml,
\*   repomd        the manifest: well-formed or not, and its data entries,
\*   primary_net   the outcome of each successive GET of the primary listing,
\*   payload       the bytes of the listing: their format and whether they
\*                 are intact,
\*   wellformed    whether the decompressed listing is well-formed XML,
\*   elements      the package elements of the listing, in document order.

\* A child element or a document node that is not there.
NOELEM == "<no element>"

\* max_retries of _fetch_with_retry (fedora.py 108).
MaxRetries == 3

\* _fetch_with_retry: whether one of the first max_retries attempts is
\* answered; None (FALSE) when all of them time out or fail.
FetchWithRetry(net, max_retries) ==
    \E k \in 1..max_retries : k <= Len(net) /\ net[k] = "ok"

\* requests.get followed by raise_for_status (openeuler.py 117-118): one
\* attempt, which raises unless it is answered.
FetchOnce(net) == Len(net) >= 1 /\ net[1] = "ok"

\* The href of the first data entry of type primary that has a location
\* element, among the entries one query sees; NOELEM when there is none.
RECURSIVE FirstPrimary(_, _)
FirstPrimary(entries, ns) ==
    IF entries = <<>> THEN NOELEM
    ELSE LET d == Head(entries)
         IN IF d.ns = ns /\ d.type = "primary" /\ d.href # NOELEM
            THEN Get(d, "href")
            ELSE FirstPrimary(Tail(entries), ns)

\* A manifest parser that takes the location of the first entry, whatever
\* its type.
ParseRepomd_FirstEntry(repomd) ==
    IF ~repomd.wellformed \/ repomd.entries = <<>> THEN NULL
    ELSE Get(Head(repomd.entries), "href")

\* _parse_repomd: the href of the first primary entry that has a location,
\* looked for with the namespace and then without; None when the manifest
\* does not parse or has no such entry.
ParseRepomd(repomd) ==
    IF ~repomd.wellformed THEN NULL
    ELSE LET withns == FirstPrimary(repomd.entries, TRUE)
             plain == FirstPrimary(repomd.entries, FALSE)
         IN IF withns # NOELEM THEN withns
            ELSE IF plain # NOELEM THEN plain
            ELSE NULL

\* gzip.GzipFile(...).read(): the listing, or a raise on bytes that are not
\* an intact gzip stream.
Gunzip(payload) == payload.format = "gzip" /\ payload.intact

\* package_elem.find(child) of one loop: the query with the namespace sees
\* the children of a namespaced element, the plain one those of a plain one.
Child(e, field, ns) == IF e.ns = ns THEN e[field] ELSE NOELEM

\* int(build_timestamp) on the timestamps of the model; NoNum for a
\* ValueError.
ParseInt(s) ==
    CASE s = "1704063600" -> Some(1704063600)
      [] s = "1685620800" -> Some(1685620800)
      [] OTHER -> NoNum

\* datetime.fromtimestamp(ts).date() as a day number: the calendar day of the
\* machine's local time.
LocalDate(ts, zone) == (ts + zone) \div 86400

\* _build_source_url (fedora.py 411-427, openeuler.py 327-342):
\* sources_template.format(...) on the templates of the model.
BuildSourceUrl(template, name, version) ==
    CASE template = "https://src.fedoraproject.org/rpms/{srcname}/tree/{fversion}" ->
            "https://src.fedoraproject.org/rpms/" \o name \o "/tree/"
                \o (IF version = "rawhide" THEN "rawhide" ELSE "f" \o version)
      [] template = "https://gitee.com/src-openeuler/{srcname}/tree/{version}" ->
            "https://gitee.com/src-openeuler/" \o name \o "/tree/" \o version
      [] OTHER -> ""

\* A loop body without the test of the name: an element without a name
\* yields a record.
ParseElement_KeepsNameless(e, ns, template, version, zone) ==
    LET name == Child(e, "name", ns)
        arch == Child(e, "arch", ns)
        ver == Child(e, "ver", ns)
        rel == Child(e, "rel", ns)
        build == Child(e, "build", ns)
        url == Child(e, "url", ns)
        package_name == IF name = NOELEM THEN "" ELSE name
        pkg_version == IF ver = NOELEM THEN "" ELSE Get([v |-> ver], "v")
        pkg_release == IF rel = NOELEM THEN "" ELSE Get([v |-> rel], "v")
        full_version == IF Truthy(pkg_release)
                        THEN pkg_version \o "-" \o pkg_release
                        ELSE pkg_version
        build_timestamp == IF build = NOELEM THEN NULL ELSE Get([v |-> build], "v")
        website == IF url = NOELEM THEN "" ELSE url
    IN  IF e.type # "rpm" THEN [kind |-> "skip"]
        ELSE IF arch # NOELEM /\ arch # "src" THEN [kind |-> "skip"]
        ELSE IF Truthy(build_timestamp) /\ ParseInt(build_timestamp) = NoNum
             THEN [kind |-> "error"]
        ELSE [kind |-> "package",
              pkg |-> Package(package_name, full_version, website,
                              BuildSourceUrl(template, package_name, version),
                              IF Truthy(build_timestamp)
                              THEN Some(LocalDate(ParseInt(build_timestamp)[1], zone))
                              ELSE NoNum,
                              NULL, NoNum, NULL)]

\* The body of the loop for one element (fedora.py 255-321 and 333-396,
\* openeuler.py 197-260 and 265-320): "skip" for an element the loop passes
\* over, "error" for one whose parsing raises, "package" with the record.
ParseElement(e, ns, template, version, zone) ==
    LET name == Child(e, "name", ns)
        arch == Child(e, "arch", ns)
        ver == Child(e, "ver", ns)
        rel == Child(e, "rel", ns)
        build == Child(e, "build", ns)
        url == Child(e, "url", ns)
        package_name == IF name = NOELEM THEN "" ELSE name
        pkg_version == IF ver = NOELEM THEN "" ELSE Get([v |-> ver], "v")
        pkg_release == IF rel = NOELEM THEN "" ELSE Get([v |-> rel], "v")
        full_version == IF Truthy(pkg_release)
                        THEN pkg_version \o "-" \o pkg_release
                        ELSE pkg_version
        build_timestamp == IF build = NOELEM THEN NULL ELSE Get([v |-> build], "v")
        website == IF url = NOELEM THEN "" ELSE url
    IN  IF e.type # "rpm" THEN [kind |-> "skip"]
        ELSE IF arch # NOELEM /\ arch # "src" THEN [kind |-> "skip"]
        ELSE IF ~Truthy(package_name) THEN [kind |-> "skip"]
        ELSE IF Truthy(build_timestamp) /\ ParseInt(build_timestamp) = NoNum
             THEN [kind |-> "error"]
        ELSE [kind |-> "package",
              pkg |-> Package(package_name, full_version, website,
                              BuildSourceUrl(template, package_name, version),
                              IF Truthy(build_timestamp)
                              THEN Some(LocalDate(ParseInt(build_timestamp)[1], zone))
                              ELSE NoNum,
                              NULL, NoNum, NULL)]

\* A loop that gives up at the first element whose parsing raises.
RECURSIVE ParseLoop_AbortOnError(_, _, _, _, _)
ParseLoop_AbortOnError(elems, ns, template, version, zone) ==
    IF elems = <<>> THEN <<>>
    ELSE LET r == ParseElement(Head(elems), ns, template, version, zone)
         IN IF r.kind = "error" THEN <<>>
            ELSE (IF r.kind = "package" THEN <<r.pkg>> ELSE <<>>)
                 \o ParseLoop_AbortOnError(Tail(elems), ns, template, version, zone)

\* One loop over the elements: the records of the elements that parse, in
\* document order; a raise inside the loop body is caught there and the loop
\* goes on with the next element.
RECURSIVE ParseLoop(_, _, _, _, _)
ParseLoop(elems, ns, template, version, zone) ==
    IF elems = <<>> THEN <<>>
    ELSE LET r == ParseElement(Head(elems), ns, template, version, zone)
         IN (IF r.kind = "package" THEN <<r.pkg>> ELSE <<>>)
            \o ParseLoop(Tail(elems), ns, template, version, zone)

\* root.findall('rpm:package', ns) and root.findall('package').
FindAll(elems, ns) == SelectSeq(elems, LAMBDA e : e.ns = ns)

\* A parser that runs both loops and joins their records.
FedoraParseRpmMetadata_Merge(elems, template, version, zone) ==
    ParseLoop(FindAll(elems, TRUE), TRUE, template, version, zone)
        \o ParseLoop(FindAll(elems, FALSE), FALSE, template, version, zone)

\* FedoraCollector._parse_rpm_metadata (fedora.py 224-409).
FedoraParseRpmMetadata(elems, template, version, zone) ==
    LET withns == FindAll(elems, TRUE)
        all_packages == IF withns # <<>> THEN withns ELSE FindAll(elems, FALSE)
        first == ParseLoop(all_packages, TRUE, template, version, zone)
    IN  IF first # <<>> THEN first
        ELSE ParseLoop(FindAll(elems, FALSE), FALSE, template, version, zone)

\* OpenEulerCollector._parse_rpm_metadata (openeuler.py 179-325).
OpenEulerParseRpmMetadata(elems, template, version, zone) ==
    LET first == ParseLoop(FindAll(elems, TRUE), TRUE, template, version, zone)
    IN  IF first # <<>> THEN first
        ELSE ParseLoop(FindAll(elems, FALSE), FALSE, template, version, zone)

\* RepodataParser._parse_package (src/repodata_parser.py 98-180) with the
\* defaults src=True, binary=False: None ("skip") for an element without a
\* name or an architecture, or of another architecture than src; otherwise
\* the Package, of which the name, the architecture and the version fields
\* are kept here.  The names of the model have no surrounding blanks, so
\* strip() leaves them as they are.
DemoParsePackage(e) ==
    LET name == Child(e, "name", TRUE)
        arch == Child(e, "arch", TRUE)
        ver == Child(e, "ver", TRUE)
        rel == Child(e, "rel", TRUE)
    IN  IF name \in {NOELEM, NULL} THEN [kind |-> "skip"]
        ELSE IF arch \in {NOELEM, NULL} THEN [kind |-> "skip"]
        ELSE IF arch # "src" THEN [kind |-> "skip"]
        ELSE [kind |-> "package",
              pkg |-> [name |-> name, arch |-> arch,
                       version |-> IF ver = NOELEM THEN NULL
                                   ELSE IF ver = MISSING THEN "" ELSE ver,
                       release |-> IF rel = NOELEM THEN NULL
                                   ELSE IF rel = MISSING THEN "" ELSE rel]]

\* RepodataParser.parse (src/repodata_parser.py 58-96): the packages of the
\* elements root.findall('.//common:package') matches, in document order.
RECURSIVE DemoParseLoop(_)
DemoParseLoop(elems) ==
    IF elems = <<>> THEN <<>>
    ELSE LET r == DemoParsePackage(Head(elems))
         IN (IF r.kind = "package" THEN <<r.pkg>> ELSE <<>>)
            \o DemoParseLoop(Tail(elems))

DemoParse(elems) == DemoParseLoop(FindAll(elems, TRUE))

\* FedoraCollector._fetch_repodata (fedora.py 140-189): the records of one
\* repo and how the fetch ended.
FedoraFetchRepodata(repo, template, version, zone) ==
    IF ~FetchWithRetry(repo.repomd_net, MaxRetries)
    THEN [packages |-> <<>>, outcome |-> "manifest unreachable"]
    ELSE IF ~Truthy(ParseRepomd(repo.repomd))
    THEN [packages |-> <<>>, outcome |-> "no primary"]
    ELSE IF ~FetchWithRetry(repo.primary_net, MaxRetries)
    THEN [packages |-> <<>>, outcome |-> "primary unreachable"]
    ELSE IF ~Gunzip(repo.payload)
    THEN [packages |-> <<>>, outcome |-> "decompress failed"]
    ELSE IF ~repo.wellformed
    THEN [packages |-> <<>>, outcome |-> "parse failed"]
    ELSE [packages |-> FedoraParseRpmMetadata(repo.elements, template, version, zone),
          outcome |-> "ok"]

\* OpenEulerCollector._fetch_repodata (openeuler.py 99-144).
OpenEulerFetchRepodata(repo, template, version, zone) ==
    IF ~FetchOnce(repo.repomd_net)
    THEN [packages |-> <<>>, outcome |-> "manifest unreachable"]
    ELSE IF ~Truthy(ParseRepomd(repo.repomd))
    THEN [packages |-> <<>>, outcome |-> "no primary"]
    ELSE IF ~FetchOnce(repo.primary_net)
    THEN [packages |-> <<>>, outcome |-> "primary unreachable"]
    ELSE IF ~Gunzip(repo.payload)
    THEN [packages |-> <<>>, outcome |-> "decompress failed"]
    ELSE IF ~repo.wellformed
    THEN [packages |-> <<>>, outcome |-> "parse failed"]
    ELSE [packages |-> OpenEulerParseRpmMetadata(repo.elements, template, version, zone),
          outcome |-> "ok"]

\* _fetch_repodata of the collector named on the command line.
FetchRepodata(cname, repo, template, version, zone) ==
    IF cname = "fedora"
    THEN FedoraFetchRepodata(repo, template, version, zone)
    ELSE OpenEulerFetchRepodata(repo, template, version, zone)

----------------------------------------------------------------------------
\* The upstream registries, as the detectors see them through HttpClient.get.
\* A GitHub project has at most one release (its latest); a PyPI project has
\* at most one version.  "fail" names the requests that end in an error, a
\* timeout or a 404.

Names == {"curl", "zlib"}
Slugs == {"curl/curl", "madler/zlib"}

GhStates ==
    [fail : {{}, {"latest"}, {"tag"}, {"repo"}},
     tag_name : {NULL, "8.5.0", "v8.5.0", "v"},
     published_at : {NULL, "2024-01-01T00:00:00Z", "soon"},
     language : {NULL, "C"}]

PypiStates ==
    [fail : {{}, {"json"}, {"release"}},
     version : {NULL, "3.1"},
     upload_time : {NULL, "2023-06-01T12:00:00", "n/a"}]

\* Every request fails.
GhDown == [fail |-> {"latest", "tag", "repo"}, tag_name |-> NULL,
           published_at |-> NULL, language |-> NULL]
PypiDown == [fail |-> {"json", "release"}, version |-> NULL, upload_time |-> NULL]
NoRegistry == [gh |-> [s \in Slugs |-> GhDown], pypi |-> [n \in Names |-> PypiDown]]

\* str.lstrip("v") on the tag names of the model.
LstripV(tag) ==
    CASE tag = "v8.5.0" -> "8.5.0"
      [] tag = "v" -> ""
      [] OTHER -> tag

\* GitHubDetector.get_latest_version: the tag of /releases/latest without its
\* leading "v"s, None when the request fails or holds no tag_name.
GhLatestVersion(reg, slug) ==
    LET g == reg.gh[slug]
    IN IF "latest" \in g.fail \/ ~Truthy(g.tag_name) THEN NULL
       ELSE LstripV(g.tag_name)

\* GitHubDetector.get_release_date: published_at of /releases/tags/{version};
\* GitHub answers 404 unless a release carries exactly that tag.
GhReleaseDate(reg, slug, version) ==
    LET g == reg.gh[slug]
    IN IF "tag" \in g.fail \/ g.tag_name # version \/ ~Truthy(g.published_at) THEN NULL
       ELSE g.published_at

\* GitHubDetector.get_repo_language.
GhRepoLanguage(reg, slug) ==
    LET g == reg.gh[slug]
    IN IF "repo" \in g.fail \/ ~Truthy(g.language) THEN NULL ELSE g.language

\* PyPIDetector.get_latest_version: info.version of /{name}/json.
PypiLatestVersion(reg, name) ==
    LET y == reg.pypi[name]
    IN IF "json" \in y.fail THEN NULL ELSE y.version

\* PyPIDetector.get_release_date: urls[0].upload_time of /{name}/{version}/json.
PypiReleaseDate(reg, name, version) ==
    LET y == reg.pypi[name]
    IN IF "release" \in y.fail \/ y.version # version THEN NULL ELSE y.upload_time

----------------------------------------------------------------------------
\* DataProcessor.save_to_database: the enrichment of one package.

\* re.search(r"github\.com/([^/]+/[^/]+)", source) followed by
\* .rstrip(".git"), on the URLs of the model; NULL when nothing matches.
GithubSlug(url) ==
    CASE url = "https://github.com/curl/curl" -> "curl/curl"
      [] url = "https://github.com/madler/zlib.git" -> "madler/zlib"
      [] OTHER -> NULL

\* parse_iso_to_datetime(...).date() as a day number (days since 1970-01-01),
\* on the timestamps of the model: the "Z" form by strptime, the plain form by
\* fromisoformat, anything else through the date-only fallback to None.
ParseIsoDate(iso) ==
    CASE iso = "2024-01-01T00:00:00Z" -> Some(19723)
      [] iso = "2023-06-01T12:00:00" -> Some(19509)
      [] OTHER -> NoNum

\* packaging.version.parse on the version strings of the model: the release
\* numbers and the post-release number (-1 when there is none).  "x-n" is
\* PEP 440's post release; None (a TypeError) and "" do not parse.
ParseVersion(v) ==
    CASE v = "8.4.0-1" -> [ok |-> TRUE, major |-> 8, minor |-> 4, micro |-> 0, post |-> 1]
      [] v = "1.0-1" -> [ok |-> TRUE, major |-> 1, minor |-> 0, micro |-> 0, post |-> 1]
      [] v = "8.5.0" -> [ok |-> TRUE, major |-> 8, minor |-> 5, micro |-> 0, post |-> -1]
      [] v = "7.0" -> [ok |-> TRUE, major |-> 7, minor |-> 0, micro |-> 0, post |-> -1]
      [] v = "3.1" -> [ok |-> TRUE, major |-> 3, minor |-> 1, micro |-> 0, post |-> -1]
      [] v = "2.0" -> [ok |-> TRUE, major |-> 2, minor |-> 0, micro |-> 0, post |-> -1]
      [] v = "1.5" -> [ok |-> TRUE, major |-> 1, minor |-> 5, micro |-> 0, post |-> -1]
      [] v = "1.0.30-1" -> [ok |-> TRUE, major |-> 1, minor |-> 0, micro |-> 30, post |-> 1]
      [] v = "1.3.0" -> [ok |-> TRUE, major |-> 1, minor |-> 3, micro |-> 0, post |-> -1]
      [] v = "1.2.0" -> [ok |-> TRUE, major |-> 1, minor |-> 2, micro |-> 0, post |-> -1]
      [] v = "1.3.5" -> [ok |-> TRUE, major |-> 1, minor |-> 3, micro |-> 5, post |-> -1]
      [] OTHER -> [ok |-> FALSE, major |-> 0, minor |-> 0, micro |-> 0, post |-> -1]

\* v_current >= v_latest of two parsed versions.
VersionGE(a, b) ==
    \/ a.major > b.major
    \/ a.major = b.major /\ a.minor > b.minor
    \/ a.major = b.major /\ a.minor = b.minor /\ a.micro > b.micro
    \/ a.major = b.major /\ a.minor = b.minor /\ a.micro = b.micro /\ a.post >= b.post

\* a / b rounded to the nearest integer (b > 0), and truncated towards zero.
RoundDiv(a, b) == (2 * a + b) \div (2 * b)
TruncDiv(a, b) == IF a >= 0 THEN a \div b ELSE -((-a) \div b)

\* Line 59 in IEEE-754 double arithmetic, (major_diff * 1.0) + (minor_diff *
\* 0.1) + (patch_diff * 0.01) summed left to right: the sign of what the
\* double differs by from the double nearest to the decimal sum, on the
\* version differences of the model.  3 * 0.1 is 0.30000000000000004, so
\* (0, 3, 0) gives 0.30000000000000004 and (0, 3, -30) gives
\* 5.551115123125783e-17 where the decimal sums are 0.3 and 0; (0, 1, 5)
\* gives 0.15000000000000002 and (1, -3, -5) gives 0.6499999999999999.
HeuristicResidue(major_diff, minor_diff, patch_diff) ==
    CASE major_diff = 0 /\ minor_diff = 3 /\ patch_diff = 0 -> 1
      [] major_diff = 0 /\ minor_diff = 3 /\ patch_diff = 5 -> 1
      [] major_diff = 0 /\ minor_diff = 3 /\ patch_diff = -25 -> 1
      [] major_diff = 0 /\ minor_diff = 3 /\ patch_diff = -30 -> 1
      [] major_diff = 0 /\ minor_diff = 1 /\ patch_diff = 5 -> 1
      [] major_diff = 0 /\ minor_diff = 2 /\ patch_diff = -5 -> 1
      [] major_diff = 7 /\ minor_diff = 4 /\ patch_diff = -30 -> 1
      [] major_diff = 1 /\ minor_diff = -3 /\ patch_diff = -5 -> -1
      [] OTHER -> 0

\* Lines 45-63, the estimate from the version numbers: a fraction num / den
\* of a year and eps, the sign of the amount by which the double returned
\* differs from the double nearest to num / den.  0.0 when a version does not
\* parse (the except of line 61).
VersionEstimate(current_version, latest_version) ==
    LET vc == ParseVersion(current_version)
        vl == ParseVersion(latest_version)
        major_diff == vl.major - vc.major
        minor_diff == vl.minor - vc.minor
        patch_diff == vl.micro - vc.micro
        est == major_diff * 1000 + minor_diff * 100 + patch_diff * 10
        res == HeuristicResidue(major_diff, minor_diff, patch_diff)
    IN IF ~vc.ok \/ ~vl.ok THEN [num |-> 0, den |-> 1000, eps |-> 0]
       ELSE IF VersionGE(vc, vl) THEN [num |-> 0, den |-> 1000, eps |-> 0]
       \* max(0.0, estimated_years)
       ELSE IF est > 0 THEN [num |-> est, den |-> 1000, eps |-> res]
       ELSE IF est = 0 /\ res > 0 THEN [num |-> 0, den |-> 1000, eps |-> 1]
       ELSE [num |-> 0, den |-> 1000, eps |-> 0]

\* A calculate_libyear that clamps the date difference at 0.
calculate_libyear_Clamped(current_version, latest_version, date_current, date_latest) ==
    IF date_current # NoNum /\ date_latest # NoNum
    THEN [num |-> IF date_latest[1] > date_current[1]
                  THEN (date_latest[1] - date_current[1]) * 4 ELSE 0,
          den |-> 1461, eps |-> 0]
    ELSE VersionEstimate(current_version, latest_version)

\* LibYearCalculator.calculate_libyear.  With both dates: delta.days / 365.25,
\* one correctly rounded division.  Otherwise the version estimate.
calculate_libyear(current_version, latest_version, date_current, date_latest) ==
    IF date_current # NoNum /\ date_latest # NoNum
    THEN [num |-> (date_latest[1] - date_current[1]) * 4, den |-> 1461, eps |-> 0]
    ELSE VersionEstimate(current_version, latest_version)

\* x > 0.0 of a result of calculate_libyear.
Positive(ly) == ly.num > 0 \/ (ly.num = 0 /\ ly.eps > 0)

\* Lines 210-212.
TagPackage(p, cname, dversion) ==
    [p EXCEPT !.collector_name = cname,
              !.distribution_version = IF Truthy(dversion) THEN dversion ELSE @]

\* Lines 214-237: the GitHub lookup.  The result is the package, the lookups
\* made, and which fields the step wrote.
ResolveGithub(p, reg) ==
    LET source == IF Truthy(Get(p, "source_url")) THEN p.source_url
                  ELSE IF Truthy(Get(p, "website")) THEN p.website ELSE ""
        slug == GithubSlug(source)
        latest == GhLatestVersion(reg, slug)
        updt == ParseIsoDate(GhReleaseDate(reg, slug, latest))
        lang == GhRepoLanguage(reg, slug)
        p1 == IF Truthy(latest) THEN [p EXCEPT !.upstream_version = latest] ELSE p
        p2 == IF Truthy(latest) /\ updt # NoNum
              THEN [p1 EXCEPT !.upstream_release_date = updt] ELSE p1
        p3 == IF Truthy(lang) THEN [p2 EXCEPT !.language = lang] ELSE p2
    IN IF Truthy(Get(p, "upstream_version")) \/ slug = NULL
       THEN [pkg |-> p, lookups |-> <<>>, wrote |-> {}]
       ELSE [pkg |-> p3,
             lookups |-> <<"github.latest">>
                         \o (IF Truthy(latest) THEN <<"github.release_date">> ELSE <<>>)
                         \o <<"github.language">>,
             wrote |-> (IF Truthy(latest) THEN {"upstream_version"} ELSE {})
                       \cup (IF Truthy(latest) /\ updt # NoNum
                             THEN {"upstream_release_date"} ELSE {})
                       \cup (IF Truthy(lang) THEN {"language"} ELSE {})]

\* A PyPI lookup that does not look at the upstream version already found.
ResolvePypi_Always(p, reg) ==
    LET latest == PypiLatestVersion(reg, Get(p, "package_name"))
    IN IF ~Truthy(latest)
       THEN [pkg |-> p, lookups |-> <<"pypi.latest">>, wrote |-> {}]
       ELSE [pkg |-> [p EXCEPT !.upstream_version = latest],
             lookups |-> <<"pypi.latest", "pypi.release_date">>,
             wrote |-> {"upstream_version"}]

\* Lines 239-254: the PyPI lookup, when the package still has no upstream
\* version.
ResolvePypi(p, reg) ==
    LET pkgname == Get(p, "package_name")
        latest == PypiLatestVersion(reg, pkgname)
        updt == ParseIsoDate(PypiReleaseDate(reg, pkgname, latest))
        p1 == IF updt # NoNum
              THEN [p EXCEPT !.upstream_version = latest, !.upstream_release_date = updt]
              ELSE [p EXCEPT !.upstream_version = latest]
        \* package.setdefault("language", "Python")
        p2 == IF p1.language = MISSING THEN [p1 EXCEPT !.language = "Python"] ELSE p1
    IN IF Truthy(Get(p, "upstream_version")) \/ ~Truthy(pkgname)
       THEN [pkg |-> p, lookups |-> <<>>, wrote |-> {}]
       ELSE IF ~Truthy(latest)
       THEN [pkg |-> p, lookups |-> <<"pypi.latest">>, wrote |-> {}]
       ELSE [pkg |-> p2,
             lookups |-> <<"pypi.latest", "pypi.release_date">>,
             wrote |-> {"upstream_version"}
                       \cup (IF updt # NoNum THEN {"upstream_release_date"} ELSE {})
                       \cup (IF p1.language = MISSING THEN {"language"} ELSE {})]

\* Lines 256-289: libyear (in thousandths of a year, rounded as round(x, 3)),
\* days_outdated = int(libyear * 365) and is_outdated = libyear > 0.0, the
\* last taken on the double before it is rounded.  On the values of the model
\* the residue of the double changes neither the rounding nor the truncation.
WithLibyear(p) ==
    LET current_ver == Get(p, "version")
        upstream_ver == IF p.upstream_version = MISSING THEN current_ver
                        ELSE p.upstream_version
        ly == calculate_libyear(current_ver, upstream_ver,
                                p.system_release_date, p.upstream_release_date)
    IN [p EXCEPT !.libyear = Some(RoundDiv(ly.num * 1000, ly.den)),
                 !.days_outdated = Some(TruncDiv(ly.num * 365, ly.den)),
                 !.is_outdated = Positive(ly)]

\* One iteration of the loop of lines 209-289.
EnrichOne(p, cname, dversion, reg) ==
    LET gh == ResolveGithub(TagPackage(p, cname, dversion), reg)
        py == ResolvePypi(gh.pkg, reg)
    IN [pkg |-> WithLibyear(py.pkg),
        before |-> p,
        lookups |-> gh.lookups \o py.lookups,
        github |-> gh.wrote,
        pypi |-> py.wrote]

----------------------------------------------------------------------------
\* DatabaseManager.save_packages_batch, step by step.  The whole call runs
\* inside one "with self.db.get_cursor()" block: one connection, one
\* transaction, one commit when the block is left (db_connection.py 79-92).

\* What a call leaves behind when it returns.
CallRecord(rows, committed) ==
    [table |-> rows, committed |-> committed, count |-> saved_count,
     ts |-> now, rid |-> repository_id]

\* Line 263 entering get_cursor: get_connection() connects or raises.  A
\* raise passes through get_cursor (no connection to roll back) to the
\* except of line 318, and the call returns saved_count.
BatchConnect ==
    /\ db_pc = "connect"
    /\ \/ /\ conn' = "open"
          /\ tx' = table
          /\ db_pc' = "loop"
          /\ UNCHANGED <<calls, fail_at>>
       \/ /\ conn' = "closed"
          /\ tx' = {}
          /\ db_pc' = "returned"
          /\ fail_at' = 1
          /\ calls' = Append(calls, CallRecord(table, FALSE))
    /\ UNCHANGED <<table, next_id, now, packages, repository_id, idx,
                   saved_count, batch_log, offered>>
    /\ UNCHANGED <<enr_vars, col_vars, main_vars, fetch_vars, conc_vars, calc_vars, demo_vars>>

\* Lines 268-313: cursor.execute for the record at idx.  Any exception of
\* the statement (a rejected value, a dead connection) is caught by the
\* inner except and the loop goes on with the next record.
BatchExecute ==
    /\ db_pc = "loop"
    /\ idx <= Len(packages)
    /\ LET p == packages[idx]
           ok == conn = "open" /\ ~RowRejected(p)
           fresh == Conflicts(tx, p, repository_id) = {}
           n == IF ok THEN saved_count + 1 ELSE saved_count
       IN /\ tx' = IF ok THEN UpsertRow(tx, p, repository_id, next_id, now) ELSE tx
          /\ next_id' = IF ok /\ fresh THEN next_id + 1 ELSE next_id
          /\ saved_count' = n
          /\ batch_log' = IF EndsBatch(idx, Len(packages))
                          THEN Append(batch_log, n) ELSE batch_log
    /\ idx' = idx + 1
    /\ offered' = offered \cup {idx}
    /\ UNCHANGED <<table, conn, now, db_pc, packages, repository_id, calls, fail_at>>
    /\ UNCHANGED <<enr_vars, col_vars, main_vars, fetch_vars, conc_vars, calc_vars, demo_vars>>

\* The environment: the connection dies while the transaction is open (the
\* server is restarted, the network drops).  The server discards the
\* uncommitted work; the client finds out at its next statement.
ConnectionLost ==
    /\ db_pc = "loop"
    /\ conn = "open"
    /\ conn' = "lost"
    /\ tx' = table
    /\ fail_at' = idx
    /\ UNCHANGED <<table, next_id, now, db_pc, packages, repository_id, idx,
                   saved_count, batch_log, calls, offered>>
    /\ UNCHANGED <<enr_vars, col_vars, main_vars, fetch_vars, conc_vars, calc_vars, demo_vars>>

\* Leaving the with block (db_connection.py 82-92): commit, or on a raise of
\* commit the rollback, the re-raise, and the except of line 318.  Either way
\* line 321 returns saved_count.
BatchCommit ==
    /\ db_pc = "loop"
    /\ idx > Len(packages)
    /\ \/ /\ conn = "open"
          /\ table' = tx
          /\ calls' = Append(calls, CallRecord(tx, TRUE))
       \/ /\ conn = "lost"
          /\ table' = table
          /\ calls' = Append(calls, CallRecord(table, FALSE))
    /\ conn' = "closed"
    /\ tx' = {}
    /\ db_pc' = "returned"
    /\ UNCHANGED <<next_id, now, packages, repository_id, idx, saved_count,
                   batch_log, fail_at, offered>>
    /\ UNCHANGED <<enr_vars, col_vars, main_vars, fetch_vars, conc_vars, calc_vars, demo_vars>>

\* The caller hands the identical list to save_packages_batch once more.
BatchRerun ==
    /\ db_pc = "returned"
    /\ Len(calls) < MaxCalls
    /\ db_pc' = "connect"
    /\ conn' = "none"
    /\ idx' = 1
    /\ saved_count' = 0
    /\ batch_log' = <<>>
    /\ now' = now + 1
    /\ fail_at' = 0
    /\ offered' = {}
    /\ UNCHANGED <<table, tx, next_id, packages, repository_id, calls>>
    /\ UNCHANGED <<enr_vars, col_vars, main_vars, fetch_vars, conc_vars, calc_vars, demo_vars>>

----------------------------------------------------------------------------
\* DataProcessor.save_to_database, step by step.

\* Lines 209-289 for the package at pkg_i.
EnrichPackage ==
    /\ enr_pc = "enrich"
    /\ pkg_i <= Len(packages)
    /\ LET e == EnrichOne(packages[pkg_i], collector_name, distribution_version, registry)
       IN /\ packages' = [packages EXCEPT ![pkg_i] = e.pkg]
          /\ enrich_log' = Append(enrich_log, e)
    /\ pkg_i' = pkg_i + 1
    /\ UNCHANGED <<enr_pc, collector_name, distribution_version, registry>>
    /\ UNCHANGED <<db_vars, db_pc, repository_id, idx, saved_count, batch_log, hist_vars>>
    /\ UNCHANGED <<col_vars, main_vars, fetch_vars, conc_vars, calc_vars, demo_vars>>

\* Line 291: the enriched list goes to save_packages_batch.
EnrichDone ==
    /\ enr_pc = "enrich"
    /\ pkg_i > Len(packages)
    /\ enr_pc' = "saving"
    /\ db_pc' = "connect"
    /\ idx' = 1
    /\ saved_count' = 0
    /\ batch_log' = <<>>
    /\ UNCHANGED <<pkg_i, collector_name, distribution_version, registry, enrich_log>>
    /\ UNCHANGED <<db_vars, packages, repository_id, hist_vars>>
    /\ UNCHANGED <<col_vars, main_vars, fetch_vars, conc_vars, calc_vars, demo_vars>>

----------------------------------------------------------------------------
\* The specification of the upsert alone: any list of records, written
\* MaxCalls times over a table that may already hold rows.

UpsertRecords ==
    {Package(n, "1.0-1", "", "", NoNum, u, NoNum, NULL) :
        n \in {"curl", "zlib"}, u \in {NULL, "2.0"}}
    \cup {Package(n, NULL, "", "", NoNum, NULL, NoNum, NULL) : n \in {"curl", "zlib"}}

RECURSIVE SeqsUpTo(_, _)
SeqsUpTo(S, n) ==
    IF n = 0 THEN {<<>>}
    ELSE LET shorter == SeqsUpTo(S, n - 1)
         IN shorter \cup {Append(q, x) : q \in {t \in shorter : Len(t) = n - 1}, x \in S}

\* Rows an earlier run left: the same key in two repositories.
PriorRows ==
    {NewRow(Package("curl", "1.0-1", "", "", NoNum, "1.5", NoNum, "C"), r, r, 0) :
        r \in {1, 2}}

InitUpsert ==
    /\ table \in {{}, PriorRows}
    /\ tx = {}
    /\ conn = "none"
    /\ next_id = 3
    /\ now = 1
    /\ db_pc = "connect"
    /\ packages \in SeqsUpTo(UpsertRecords, MaxBatchLen)
    /\ repository_id \in {1, 2}
    /\ idx = 1
    /\ saved_count = 0
    /\ batch_log = <<>>
    /\ calls = <<>>
    /\ offered = {}
    /\ fail_at = 0
    /\ config = NoConfig
    /\ tz = 0
    /\ src_i = 1
    /\ fetch_log = <<>>
    /\ pc = "idle"
    /\ repository = NoRepository
    /\ sync_logs = {}
    /\ final_status = NULL
    /\ exit_code = NULL
    /\ f_pc = "idle"
    /\ attempt = 0
    /\ gets = NoGets
    /\ net_log = <<>>
    /\ fetch_results = <<>>
    /\ writers = NoWriters
    /\ commit_log = <<>>
    /\ calc = NoCalc
    /\ demo = NoDemo
    /\ enr_pc = "saving"
    /\ pkg_i = Len(packages) + 1
    /\ collector_name = "fedora"
    /\ distribution_version = "40"
    /\ registry = NoRegistry
    /\ enrich_log = <<>>

NextUpsert ==
    \/ BatchConnect
    \/ BatchExecute
    \/ ConnectionLost
    \/ BatchCommit
    \/ BatchRerun

SpecUpsert == InitUpsert /\ [][NextUpsert]_vars

----------------------------------------------------------------------------
\* The specification of the enrichment alone: one package of any shape
\* against any state of the two registries.

EnrichInputs ==
    {Package("curl", "8.4.0-1", w, u, d, v, NoNum, l) :
        w \in {"", NULL, "https://github.com/curl/curl", "https://curl.se"},
        u \in {"", "https://github.com/madler/zlib.git",
               "https://src.fedoraproject.org/rpms/curl"},
        d \in {NoNum, Some(19675)},
        v \in {NULL, MISSING, "7.0"},
        l \in {NULL, MISSING, "Rust"}}

InitEnrich ==
    /\ table = {}
    /\ tx = {}
    /\ conn = "none"
    /\ next_id = 1
    /\ now = 1
    /\ db_pc = "idle"
    /\ packages \in {<<p>> : p \in EnrichInputs}
    /\ repository_id = 1
    /\ idx = 1
    /\ saved_count = 0
    /\ batch_log = <<>>
    /\ calls = <<>>
    /\ offered = {}
    /\ fail_at = 0
    /\ config = NoConfig
    /\ tz = 0
    /\ src_i = 1
    /\ fetch_log = <<>>
    /\ pc = "idle"
    /\ repository = NoRepository
    /\ sync_logs = {}
    /\ final_status = NULL
    /\ exit_code = NULL
    /\ f_pc = "idle"
    /\ attempt = 0
    /\ gets = NoGets
    /\ net_log = <<>>
    /\ fetch_results = <<>>
    /\ writers = NoWriters
    /\ commit_log = <<>>
    /\ calc = NoCalc
    /\ demo = NoDemo
    /\ enr_pc = "enrich"
    /\ pkg_i = 1
    /\ collector_name = "fedora"
    /\ distribution_version = "40"
    /\ \E g \in GhStates, y \in PypiStates :
          registry = [gh |-> [s \in Slugs |-> g], pypi |-> [n \in Names |-> y]]
    /\ enrich_log = <<>>

NextEnrich ==
    \/ EnrichPackage
    \/ EnrichDone

SpecEnrich == InitEnrich /\ [][NextEnrich]_vars

----------------------------------------------------------------------------
\* scripts/run_collector.py, main, step by step, from the point where the
\* configuration files are loaded.

\* DatabaseManager.save_repository (db_manager.py 54-98) of main's repo_data:
\* the row after INSERT ... ON DUPLICATE KEY UPDATE.  repo_data has no
\* last_sync_time, so VALUES(last_sync_time) is NULL.
SaveRepository(repo) ==
    [exists |-> TRUE, id |-> IF repo.exists THEN repo.id ELSE 1,
     last_sync_time |-> NULL, last_sync_status |-> "running"]

\* update_repository_sync_status (db_manager.py 137-174) with a sync_time:
\* the row after the UPDATE.  When the statement fails (db_ok FALSE) the
\* method logs, answers False and the row stays as it was.
UpdateSyncStatus(repo, status, sync_time, db_ok) ==
    IF db_ok /\ repo.exists
    THEN [repo EXCEPT !.last_sync_status = status, !.last_sync_time = sync_time]
    ELSE repo

\* Whether collect_packages has returned: the version is not configured, or
\* the loop over the repos is over.
Collected == ~config.version_found \/ src_i > Len(config.repos)

\* Lines 87-101: the repository row is written with status "running"; main
\* exits with 1 when save_repository answers None.
MainSaveRepository ==
    /\ pc = "start"
    /\ \E db_ok \in BOOLEAN :
          IF db_ok
          THEN /\ repository' = SaveRepository(repository)
               /\ repository_id' = repository'.id
               /\ pc' = "collect"
               /\ exit_code' = exit_code
          ELSE /\ pc' = "done"
               /\ exit_code' = "1"
               /\ UNCHANGED <<repository, repository_id>>
    /\ UNCHANGED <<sync_logs, final_status, col_vars, enr_vars, hist_vars, db_vars>>
    /\ UNCHANGED <<fetch_vars, conc_vars, calc_vars, demo_vars>>
    /\ UNCHANGED <<db_pc, packages, idx, saved_count, batch_log>>

\* collect_packages, one turn of the loop over the repos (fedora.py 90-100;
\* openeuler.py 85-91 for its single metadata_url): a repo without a
\* metadata_url is passed over, any other is fetched and parsed and its
\* records are appended.
CollectSource ==
    /\ pc = "collect"
    /\ ~Collected
    /\ LET repo == config.repos[src_i]
           r == IF repo.metadata_url = ""
                THEN [packages |-> <<>>, outcome |-> "no url"]
                ELSE FetchRepodata(collector_name, repo, config.sources_template,
                                   distribution_version, tz)
       IN /\ packages' = packages \o r.packages
          /\ fetch_log' = Append(fetch_log, [outcome |-> r.outcome,
                                             count |-> Len(r.packages)])
    /\ src_i' = src_i + 1
    /\ UNCHANGED <<config, tz, main_vars, enr_vars, hist_vars, db_vars>>
    /\ UNCHANGED <<fetch_vars, conc_vars, calc_vars, demo_vars>>
    /\ UNCHANGED <<db_pc, repository_id, idx, saved_count, batch_log>>

\* Lines 115-118: nothing was collected.
MainNoPackages ==
    /\ pc = "collect"
    /\ Collected
    /\ packages = <<>>
    /\ \E db_ok \in BOOLEAN :
          repository' = UpdateSyncStatus(repository, "failed", "start_time", db_ok)
    /\ final_status' = "failed"
    /\ pc' = "done"
    /\ exit_code' = "0"
    /\ UNCHANGED <<sync_logs, col_vars, enr_vars, hist_vars, db_vars, call_vars>>
    /\ UNCHANGED <<fetch_vars, conc_vars, calc_vars, demo_vars>>

\* Lines 120-130: the records go to save_to_database.
MainSaveToDatabase ==
    /\ pc = "collect"
    /\ Collected
    /\ packages # <<>>
    /\ pc' = "save"
    /\ enr_pc' = "enrich"
    /\ pkg_i' = 1
    /\ UNCHANGED <<repository, sync_logs, final_status, exit_code>>
    /\ UNCHANGED <<collector_name, distribution_version, registry, enrich_log>>
    /\ UNCHANGED <<col_vars, hist_vars, db_vars, call_vars>>
    /\ UNCHANGED <<fetch_vars, conc_vars, calc_vars, demo_vars>>

\* Lines 132-142: save_to_database has returned saved_count.
MainFinalize ==
    /\ pc = "save"
    /\ db_pc = "returned"
    /\ LET status == IF saved_count > 0 THEN "success" ELSE "failed"
       IN /\ \E db_ok \in BOOLEAN :
                repository' = UpdateSyncStatus(repository, status, "end_time", db_ok)
          /\ final_status' = status
    /\ pc' = "done"
    /\ exit_code' = "0"
    /\ UNCHANGED <<sync_logs, col_vars, enr_vars, hist_vars, db_vars, call_vars>>
    /\ UNCHANGED <<fetch_vars, conc_vars, calc_vars, demo_vars>>

----------------------------------------------------------------------------
\* The specification of a whole run of run_collector.py.

\* Longest list of repos of a version.
MaxRepos == 2

GoodNet == <<"ok", "ok", "ok">>
FlakyNet == <<"timeout", "ok", "ok">>
DeadNet == <<"timeout", "error", "timeout">>

Manifest ==
    [wellformed |-> TRUE,
     entries |-> <<[ns |-> TRUE, type |-> "filelists", href |-> "repodata/filelists.xml.gz"],
                   [ns |-> TRUE, type |-> "primary", href |-> "repodata/primary.xml.gz"]>>]
ManifestWithoutPrimary ==
    [wellformed |-> TRUE,
     entries |-> <<[ns |-> TRUE, type |-> "filelists", href |-> "repodata/filelists.xml.gz"]>>]

GzipPayload == [format |-> "gzip", intact |-> TRUE]
TruncatedPayload == [format |-> "gzip", intact |-> FALSE]

CurlSrc ==
    [ns |-> TRUE, type |-> "rpm", name |-> "curl", arch |-> "src", ver |-> "8.4.0",
     rel |-> "1", build |-> "1704063600", url |-> "https://github.com/curl/curl"]
ZlibSrc ==
    [ns |-> TRUE, type |-> "rpm", name |-> "zlib", arch |-> "src", ver |-> "1.0",
     rel |-> "1", build |-> "1685620800", url |-> "https://zlib.net"]
ZlibBinary == [ZlibSrc EXCEPT !.arch = "x86_64"]
\* An element whose build time is not a number: int() raises.
BadBuild == [CurlSrc EXCEPT !.build = "soon"]
Nameless == [CurlSrc EXCEPT !.name = NOELEM]
\* A version element without attributes: the record's version is None.
Unversioned == [ZlibSrc EXCEPT !.ver = MISSING, !.rel = MISSING]

RunListings ==
    {<<CurlSrc, ZlibBinary>>,
     <<BadBuild, ZlibSrc>>,
     <<CurlSrc, BadBuild, ZlibSrc>>,
     <<Nameless, Unversioned, CurlSrc>>,
     <<ZlibBinary>>}

Repo(url, repomd_net, repomd, primary_net, payload, wellformed, elements) ==
    [metadata_url |-> url, repomd_net |-> repomd_net, repomd |-> repomd,
     primary_net |-> primary_net, payload |-> payload, wellformed |-> wellformed,
     elements |-> elements]

RepoUrl == "https://dl.fedoraproject.org/pub/fedora/linux/releases/40/Everything/source/tree/"

RunRepos ==
    {Repo(RepoUrl, GoodNet, Manifest, GoodNet, GzipPayload, TRUE, l) : l \in RunListings}
    \cup {Repo(RepoUrl, FlakyNet, Manifest, GoodNet, GzipPayload, TRUE, <<CurlSrc, ZlibBinary>>),
          Repo(RepoUrl, DeadNet, Manifest, GoodNet, GzipPayload, TRUE, <<CurlSrc>>),
          Repo(RepoUrl, GoodNet, ManifestWithoutPrimary, GoodNet, GzipPayload, TRUE, <<CurlSrc>>),
          Repo(RepoUrl, GoodNet, Manifest, DeadNet, GzipPayload, TRUE, <<CurlSrc>>),
          Repo(RepoUrl, GoodNet, Manifest, GoodNet, TruncatedPayload, TRUE, <<CurlSrc>>),
          Repo(RepoUrl, GoodNet, Manifest, GoodNet, GzipPayload, FALSE, <<>>),
          Repo("", GoodNet, Manifest, GoodNet, GzipPayload, TRUE, <<CurlSrc>>)}

\* The registries of a run: unreachable, or GitHub knows curl (but the
\* request for the release of a tag fails) and PyPI knows zlib.
RunRegistries ==
    {NoRegistry,
     [gh |-> [s \in Slugs |->
                 IF s = "curl/curl"
                 THEN [fail |-> {"tag"}, tag_name |-> "8.5.0",
                       published_at |-> "2024-01-01T00:00:00Z", language |-> "C"]
                 ELSE GhDown],
      pypi |-> [n \in Names |->
                 IF n = "zlib"
                 THEN [fail |-> {}, version |-> "3.1",
                       upload_time |-> "2023-06-01T12:00:00"]
                 ELSE PypiDown]]}

\* A row an earlier run of the same collector and version left.
PriorRepository ==
    [exists |-> TRUE, id |-> 1, last_sync_time |-> "previous run",
     last_sync_status |-> "success"]

Init ==
    /\ table = {}
    /\ tx = {}
    /\ conn = "none"
    /\ next_id = 1
    /\ now = 1
    /\ db_pc = "idle"
    /\ packages = <<>>
    /\ repository_id = 0
    /\ idx = 1
    /\ saved_count = 0
    /\ batch_log = <<>>
    /\ calls = <<>>
    /\ offered = {}
    /\ fail_at = 0
    /\ enr_pc = "idle"
    /\ pkg_i = 1
    /\ collector_name \in {"fedora", "openeuler"}
    /\ distribution_version = "40"
    /\ registry \in RunRegistries
    /\ enrich_log = <<>>
    /\ \/ config = NoConfig
       \/ /\ collector_name = "fedora"
          /\ \E repos \in SeqsUpTo(RunRepos, MaxRepos) :
                config = [version_found |-> TRUE, repos |-> repos, sources_template |-> ""]
       \/ /\ collector_name = "openeuler"
          /\ \E repo \in RunRepos :
                config = [version_found |-> TRUE, repos |-> <<repo>>, sources_template |-> ""]
    /\ tz \in {0, 28800}
    /\ src_i = 1
    /\ fetch_log = <<>>
    /\ pc = "start"
    /\ repository \in {NoRepository, PriorRepository}
    /\ sync_logs = {}
    /\ final_status = NULL
    /\ exit_code = NULL
    /\ f_pc = "idle"
    /\ attempt = 0
    /\ gets = NoGets
    /\ net_log = <<>>
    /\ fetch_results = <<>>
    /\ writers = NoWriters
    /\ commit_log = <<>>
    /\ calc = NoCalc
    /\ demo = NoDemo

Next ==
    \/ MainSaveRepository
    \/ CollectSource
    \/ MainNoPackages
    \/ MainSaveToDatabase
    \/ EnrichPackage
    \/ EnrichDone
    \/ BatchConnect
    \/ BatchExecute
    \/ ConnectionLost
    \/ BatchCommit
    \/ MainFinalize

Spec == Init /\ [][Next]_vars

----------------------------------------------------------------------------
\* Claims about save_packages_batch (SpecUpsert).

\* A table without the last_updated column.
StripTs(rows) ==
    {[f \in (DOMAIN r) \ {"last_updated"} |-> r[f]] : r \in rows}

\* The rows this call wrote for input record j and committed.
PersistedBy(j) ==
    {r \in Conflicts(table, packages[j], repository_id) : r.last_updated = now}

\* C1: upsertBatch is idempotent.  Once a call has committed a list, every
\* further call with the same list and repository leaves the table with the
\* same rows and field values (last_updated aside), and the table never holds
\* two rows with the same (repository, package name, version).
C1_UpsertIdempotent ==
    /\ \A rows \in {table, tx} :
          \A r1, r2 \in rows : RowKey(r1) = RowKey(r2) => r1 = r2
    /\ \A k \in 2..Len(calls) :
          calls[k - 1].committed => StripTs(calls[k].table) = StripTs(calls[k - 1].table)

\* C1's case: the second call committed a list with a repeated key over rows
\* the first call had committed, and refreshed them.
C1_Witness ==
    /\ Len(calls) = 2
    /\ calls[1].committed /\ calls[2].committed
    /\ calls[2].count >= 2
    /\ \E i, j \in 1..Len(packages) :
          i < j /\ packages[i].package_name = packages[j].package_name
                /\ packages[i].version = packages[j].version
                /\ packages[i] # packages[j]
    /\ \E r \in table : r.last_updated = calls[2].ts /\ r.id >= 3

\* C2: when a batch-level failure happens while batch k is written or
\* committed, the rows written by batches 1..k-1 remain persisted.
C2_PriorBatchesPersist ==
    (db_pc = "returned" /\ fail_at > 0) =>
        \A j \in 1..Len(packages) :
            (BatchOf(j) < BatchOf(Min(fail_at, Len(packages))) /\ ~RowRejected(packages[j]))
                => PersistedBy(j) # {}

\* C3: the count returned equals the number of input records whose rows are
\* committed in the table when the call returns.
C3_CountIsPersisted ==
    db_pc = "returned" =>
        saved_count = Cardinality({j \in 1..Len(packages) : PersistedBy(j) # {}})

----------------------------------------------------------------------------
\* Claims about the upstream resolution (SpecEnrich).

\* The resolver that supplied the upstream version of a log entry.
Winner(e) ==
    IF "upstream_version" \in e.github THEN "github"
    ELSE IF "upstream_version" \in e.pypi THEN "pypi" ELSE "none"

IsGithub(l) == l \in {"github.latest", "github.release_date", "github.language"}
IsPypi(l) == l \in {"pypi.latest", "pypi.release_date"}

\* C8: the upstream fields resolution writes into a record all come from the
\* one resolver that returned the version; a resolver that returned no
\* version writes no field.
C8_SingleResolver ==
    \A k \in 1..Len(enrich_log) :
        LET e == enrich_log[k]
        IN /\ Winner(e) # "github" => e.github = {}
           /\ Winner(e) # "pypi" => e.pypi = {}

\* C9: a record that already carries an upstream version causes no lookup
\* and keeps its upstream fields; otherwise the GitHub lookups come first,
\* starting with the version lookup, and PyPI is asked only after them and
\* only when GitHub produced no version.
C9_ResolutionOrder ==
    \A k \in 1..Len(enrich_log) :
        LET e == enrich_log[k]
            n == Len(e.lookups)
        IN /\ Truthy(Get(e.before, "upstream_version")) =>
                /\ e.lookups = <<>>
                /\ e.pkg.upstream_version = e.before.upstream_version
                /\ e.pkg.upstream_release_date = e.before.upstream_release_date
                /\ e.pkg.language = e.before.language
           /\ \A i, j \in 1..n : (IsPypi(e.lookups[i]) /\ IsGithub(e.lookups[j])) => j < i
           /\ (\E j \in 1..n : IsGithub(e.lookups[j])) => e.lookups[1] = "github.latest"
           /\ (\E i \in 1..n : IsPypi(e.lookups[i])) => "upstream_version" \notin e.github
           /\ (/\ ~Truthy(Get(e.before, "upstream_version"))
               /\ Winner(e) # "github"
               /\ Truthy(Get(e.before, "package_name")))
                  => \E i \in 1..n : e.lookups[i] = "pypi.latest"

\* C9's cases: GitHub was asked first and had no version, then PyPI supplied
\* it.
C9_Witness ==
    \E k \in 1..Len(enrich_log) :
        /\ enrich_log[k].lookups =
              <<"github.latest", "github.language", "pypi.latest", "pypi.release_date">>
        /\ Winner(enrich_log[k]) = "pypi"

----------------------------------------------------------------------------
\* Claims about a whole run (Spec).

\* The ways the fetch of one metadata source fails.
SourceErrors ==
    {"manifest unreachable", "no primary", "primary unreachable",
     "decompress failed", "parse failed"}

\* The run is over.
RunEnded == pc = "done"

\* The write transaction of save_packages_batch failed: the connection could
\* not be opened, or the work was rolled back instead of committed.
TransactionFailed == calls # <<>> /\ ~calls[Len(calls)].committed

\* C4: if the fetch of any metadata source the run reads fails with a
\* source-scoped error, the run's final status is failed.
C4_SourceFailureFailsRun ==
    (RunEnded /\ \E k \in 1..Len(fetch_log) : fetch_log[k].outcome \in SourceErrors)
        => final_status = "failed"

\* C5: if the persistence write transaction fails (failed commit or lost
\* connection during the upsert), the run's final status is failed.
C5_TransactionFailureFailsRun ==
    (RunEnded /\ TransactionFailed) => final_status = "failed"

\* C6: on every path by which a run ends, the repository is not left with
\* status running.
C6_NeverLeftRunning ==
    RunEnded => repository.last_sync_status # "running"

\* C7: a sync job record with status running exists before any fetch of the
\* run begins, and when the run has ended the record is finalized.
C7_SyncJobRecorded ==
    /\ fetch_log # <<>> =>
          \E l \in sync_logs : l.repository_id = repository_id
    /\ (RunEnded /\ repository_id # 0) =>
          \E l \in sync_logs :
              l.repository_id = repository_id /\ l.status \in {"success", "failed"}

\* The elements of a listing that, taken alone, give a record: those the
\* namespaced query matches, or the plain ones when no namespaced element
\* gives a record.
GoodElements(repo) ==
    LET good(ns) ==
            {i \in 1..Len(repo.elements) :
                /\ repo.elements[i].ns = ns
                /\ ParseElement(repo.elements[i], ns, config.sources_template,
                                distribution_version, tz).kind = "package"}
    IN  IF good(TRUE) # {} THEN good(TRUE) ELSE good(FALSE)

\* The elements of a listing whose parsing raises.
BadElements(repo) ==
    {i \in 1..Len(repo.elements) :
        ParseElement(repo.elements[i], repo.elements[i].ns, config.sources_template,
                     distribution_version, tz).kind = "error"}

\* C10: a package-scoped error (a malformed package element, a failed
\* upstream lookup, a row the table rejects) never aborts the run: every
\* other element of a listing that was fetched gives its record, every record
\* collected is enriched, and every record is handed to the table, where the
\* ones it accepts are written when the transaction commits.
C10_PackageErrorsDoNotAbort ==
    /\ \A k \in 1..Len(fetch_log) :
          fetch_log[k].outcome = "ok" =>
              fetch_log[k].count = Cardinality(GoodElements(config.repos[k]))
    /\ (pc \in {"save", "done"} /\ enr_pc = "saving") =>
          /\ Len(enrich_log) = Len(packages)
          /\ \A j \in 1..Len(packages) : packages[j].collector_name = collector_name
    /\ (pc \in {"save", "done"} /\ db_pc = "returned" /\ fail_at = 0) =>
          /\ offered = 1..Len(packages)
          /\ \A j \in 1..Len(packages) :
                ~RowRejected(packages[j]) => PersistedBy(j) # {}

\* C10's case: a run that met a malformed element, a failed lookup and a
\* rejected row, and still enriched and wrote records that came after each.
C10_Witness ==
    /\ RunEnded
    /\ final_status = "success"
    /\ \E k \in 1..Len(fetch_log) :
          /\ fetch_log[k].outcome = "ok"
          /\ \E b \in BadElements(config.repos[k]), g \in GoodElements(config.repos[k]) :
                b < g
    /\ \E j1, j2 \in 1..Len(enrich_log) :
          /\ j1 < j2
          /\ "github.release_date" \in {enrich_log[j1].lookups[n] :
                                           n \in 1..Len(enrich_log[j1].lookups)}
          /\ packages[j1].upstream_release_date = NoNum
          /\ Truthy(Get(packages[j2], "upstream_version"))
    /\ \E j1, j2 \in 1..Len(packages) :
          /\ j1 < j2
          /\ RowRejected(packages[j1])
          /\ PersistedBy(j2) # {}

----------------------------------------------------------------------------
\* The specification of the parsers alone: one repo whose server answers,
\* with any listing of up to MaxElems package elements, read by either
\* collector.  The element at position i is named after its position, so a
\* record tells which element it came from.

\* Longest listing.
MaxElems == 3

PosNames == <<"p1", "p2", "p3", "p4", "p5">>

\* The shapes of a package element, the name left open.
ElementShapes ==
    {[ns |-> n, type |-> "rpm", name |-> nm, arch |-> a, ver |-> "8.4.0",
      rel |-> "1", build |-> b, url |-> "https://curl.se"] :
        n \in BOOLEAN, nm \in {"?"}, a \in {"src", "x86_64", NOELEM, NULL},
        b \in {"1704063600"}}
    \cup {[ns |-> n, type |-> "rpm", name |-> nm, arch |-> "src", ver |-> "8.4.0",
           rel |-> "1", build |-> "soon", url |-> "https://curl.se"] :
             n \in BOOLEAN, nm \in {"?", NOELEM}}
    \* A version element with or without its attributes, or none at all; a
    \* name element without text.
    \cup {[ns |-> TRUE, type |-> "rpm", name |-> "?", arch |-> "src", ver |-> vr[1],
           rel |-> vr[2], build |-> "1704063600", url |-> "https://curl.se"] :
             vr \in {<<"8.4.0", "">>, <<"8.4.0", MISSING>>, <<MISSING, "1">>,
                     <<NOELEM, NOELEM>>}}
    \cup {[ns |-> TRUE, type |-> "rpm", name |-> NULL, arch |-> "src", ver |-> "8.4.0",
           rel |-> "1", build |-> "1704063600", url |-> "https://curl.se"]}

\* The listing made of the shapes of a sequence, each named by its position.
NamedListing(shapes) ==
    [i \in 1..Len(shapes) |->
        IF shapes[i].name = "?"
        THEN [shapes[i] EXCEPT !.name = PosNames[i]]
        ELSE shapes[i]]

InitParse ==
    /\ table = {}
    /\ tx = {}
    /\ conn = "none"
    /\ next_id = 1
    /\ now = 1
    /\ db_pc = "idle"
    /\ packages = <<>>
    /\ repository_id = 1
    /\ idx = 1
    /\ saved_count = 0
    /\ batch_log = <<>>
    /\ calls = <<>>
    /\ offered = {}
    /\ fail_at = 0
    /\ enr_pc = "idle"
    /\ pkg_i = 1
    /\ collector_name \in {"fedora", "openeuler"}
    /\ distribution_version = "40"
    /\ registry = NoRegistry
    /\ enrich_log = <<>>
    /\ \E shapes \in SeqsUpTo(ElementShapes, MaxElems) :
          config = [version_found |-> TRUE,
                    repos |-> <<Repo(RepoUrl, GoodNet, Manifest, GoodNet, GzipPayload,
                                     TRUE, NamedListing(shapes))>>,
                    sources_template |-> ""]
    /\ tz \in {0, 28800}
    /\ src_i = 1
    /\ fetch_log = <<>>
    /\ pc = "collect"
    /\ repository = SaveRepository(NoRepository)
    /\ sync_logs = {}
    /\ final_status = NULL
    /\ exit_code = NULL
    /\ f_pc = "idle"
    /\ attempt = 0
    /\ gets = NoGets
    /\ net_log = <<>>
    /\ fetch_results = <<>>
    /\ writers = NoWriters
    /\ commit_log = <<>>
    /\ calc = NoCalc
    /\ demo = NoDemo

\* One call of RepodataParser.parse on the listing of the first source.
DemoParseListing ==
    /\ demo = NoDemo
    /\ config.repos # <<>>
    /\ demo' = <<DemoParse(config.repos[1].elements)>>
    /\ UNCHANGED <<db_vars, call_vars, hist_vars, enr_vars, col_vars, main_vars,
                   fetch_vars, conc_vars, calc_vars>>

NextParse ==
    \/ CollectSource
    \/ DemoParseListing

SpecParse == InitParse /\ [][NextParse]_vars

----------------------------------------------------------------------------
\* Claims about the parsers (SpecParse).

\* The listing that was parsed, once it has been.
Parsed == fetch_log # <<>> /\ fetch_log[1].outcome = "ok"
Listing == config.repos[1].elements

\* The elements a record can have come from: those that carry its name.
OriginsOf(record) ==
    {i \in 1..Len(Listing) : Listing[i].name = record.package_name}

\* C11: every record parse returns comes from a package element whose
\* architecture marker is the source marker; an element with another marker
\* or with none yields no record.
C11_OnlySourceArch ==
    Parsed =>
        \A j \in 1..Len(packages) :
            \A i \in OriginsOf(packages[j]) : Listing[i].arch = "src"

\* C12: whenever the namespaced query matches at least one element, whether
\* or not any of them is kept, no element matched only by the unnamespaced
\* query contributes a record.
C12_FallbackOnlyOnZeroMatches ==
    (Parsed /\ \E i \in 1..Len(Listing) : Listing[i].ns) =>
        \A j \in 1..Len(packages) :
            \A i \in OriginsOf(packages[j]) : Listing[i].ns

\* C13: the records of one parse call never mix the two queries: all come
\* from elements the namespaced query matches, or all from elements the
\* unnamespaced query matches.
C13_NeverMixesQueries ==
    Parsed =>
        \/ \A j \in 1..Len(packages) :
              \A i \in OriginsOf(packages[j]) : Listing[i].ns
        \/ \A j \in 1..Len(packages) :
              \A i \in OriginsOf(packages[j]) : ~Listing[i].ns

\* C13's case: a listing with a source element under each query, parsed into
\* at least one record.
C13_Witness ==
    /\ Parsed
    /\ packages # <<>>
    /\ \E i1, i2 \in 1..Len(Listing) :
          /\ Listing[i1].ns /\ ~Listing[i2].ns
          /\ Listing[i1].arch = "src" /\ Listing[i2].arch = "src"
          /\ Listing[i1].build # "soon" /\ Listing[i2].build # "soon"
          /\ Listing[i1].name # NOELEM /\ Listing[i2].name # NOELEM

----------------------------------------------------------------------------
\* One call of _fetch_repodata (fedora.py 140-189, openeuler.py 99-144) or of
\* RepodataFetcher.fetch (old_demo/repodata_fetcher.py 25-89), request by
\* request.  collector_name says whose: "fedora", "openeuler" or
\* "repodata_fetcher".

\* How many calls are made against the same servers.
MaxFetches == 2
\* How many GETs of one URL the servers' answers are fixed for.
NetLen == 4

\* The answer to the n-th GET of a URL; past the answers that are fixed the
\* server stays silent.
NetOutcome(net, n) == IF n <= Len(net) THEN net[n] ELSE "timeout"

\* backoff_factor ** attempt with backoff_factor = 2.0 (fedora.py 108, 133).
Backoff(n) == 2 ^ n

\* RepodataFetcher.fetch, lines 49-61: the href of the location of the first
\* namespaced data element of type primary; None stands for the RuntimeError
\* or KeyError raised when there is none.
RECURSIVE DemoParseRepomd(_)
DemoParseRepomd(entries) ==
    IF entries = <<>> THEN NULL
    ELSE LET d == Head(entries)
         IN IF d.ns /\ d.type = "primary"
            THEN (IF d.href = NOELEM THEN NULL ELSE Get(d, "href"))
            ELSE DemoParseRepomd(Tail(entries))

\* The location of the listing as the caller's manifest parsing gives it.
PrimaryLocation(cname, repomd) ==
    IF cname = "repodata_fetcher"
    THEN (IF repomd.wellformed THEN DemoParseRepomd(repomd.entries) ELSE NULL)
    ELSE ParseRepomd(repomd)

\* RepodataFetcher.fetch, lines 69-77: the compression named by the extension
\* of the listing's URL, on the locations of the model.
HrefCompression(href) ==
    CASE href = "repodata/primary.xml.gz" -> "gzip"
      [] href = "repodata/primary.xml.xz" -> "xz"
      [] href = "repodata/primary.xml.bz2" -> "bz2"
      [] href = "repodata/primary.xml.zst" -> "zstd"
      [] OTHER -> NULL

\* RepodataFetcher._decompress_and_save: whether the decompressor chosen for
\* the compression accepts the bytes; without a compression they are saved
\* as they are.
DecompressAndSave(payload, compression) ==
    compression = NULL \/ (payload.format = compression /\ payload.intact)

\* What the call gives once the listing is downloaded: fedora.py 179-184,
\* openeuler.py 133-137, repodata_fetcher.py 68-85 (which saves the listing
\* and parses nothing).
AfterPrimary(cname, repo, href, template, version, zone) ==
    IF cname = "repodata_fetcher"
    THEN [packages |-> <<>>,
          outcome |-> IF DecompressAndSave(repo.payload, HrefCompression(href))
                      THEN "ok" ELSE "decompress failed"]
    ELSE IF ~Gunzip(repo.payload)
    THEN [packages |-> <<>>, outcome |-> "decompress failed"]
    ELSE IF ~repo.wellformed
    THEN [packages |-> <<>>, outcome |-> "parse failed"]
    ELSE [packages |-> IF cname = "fedora"
                       THEN FedoraParseRpmMetadata(repo.elements, template, version, zone)
                       ELSE OpenEulerParseRpmMetadata(repo.elements, template, version, zone),
          outcome |-> "ok"]

\* A call that lets the errors of its requests out.
FetchCatches_NoRequestErrors(cname, outcome) ==
    outcome \notin {"manifest unreachable", "primary unreachable"}

\* Whether a failure stays inside the call: the except clauses of
\* _fetch_with_retry (fedora.py 127-130), of _fetch_repodata (fedora.py
\* 186-187, openeuler.py 139-142) and of fetch (repodata_fetcher.py 87-89)
\* catch every Exception.
FetchCatches(cname, outcome) == TRUE

\* A loop that allows one attempt more than max_retries.
Retries_OneMore(cname, n) == cname = "fedora" /\ n < MaxRetries

\* Whether a request that failed is made again: the loop of
\* _fetch_with_retry, which only FedoraCollector has.
Retries(cname, n) == cname = "fedora" /\ n < MaxRetries - 1

GetEvent(url, n, outcome) ==
    [kind |-> "get", url |-> url, attempt |-> n, outcome |-> outcome, seconds |-> 0]
SleepEvent(url, n, seconds) ==
    [kind |-> "sleep", url |-> url, attempt |-> n, outcome |-> NULL, seconds |-> seconds]

\* The call is entered.
FetchBegin ==
    /\ f_pc = "idle"
    /\ pc = "idle"
    /\ Len(fetch_results) < MaxFetches
    /\ f_pc' = "repomd"
    /\ attempt' = 0
    /\ net_log' = <<>>
    /\ UNCHANGED <<gets, fetch_results>>
    /\ UNCHANGED <<db_vars, call_vars, hist_vars, enr_vars, col_vars, main_vars, conc_vars, calc_vars, demo_vars>>

\* One requests.get of the request the call is at, and what follows from its
\* answer: the next request, the end of the call, or a sleep and one more
\* attempt.
FetchAttempt ==
    /\ f_pc \in {"repomd", "primary"}
    /\ LET repo == config.repos[1]
           net == IF f_pc = "repomd" THEN repo.repomd_net ELSE repo.primary_net
           outcome == NetOutcome(net, gets[f_pc] + 1)
           got == Append(net_log, GetEvent(f_pc, attempt, outcome))
           href == PrimaryLocation(collector_name, repo.repomd)
           result == CASE outcome = "ok" /\ f_pc = "repomd" ->
                              [packages |-> <<>>, outcome |-> "no primary"]
                       [] outcome = "ok" /\ f_pc = "primary" ->
                              AfterPrimary(collector_name, repo, href,
                                           config.sources_template,
                                           distribution_version, tz)
                       [] outcome # "ok" /\ f_pc = "repomd" ->
                              [packages |-> <<>>, outcome |-> "manifest unreachable"]
                       [] OTHER ->
                              [packages |-> <<>>, outcome |-> "primary unreachable"]
           finished == [packages |-> result.packages, outcome |-> result.outcome,
                        raised |-> result.outcome # "ok"
                                   /\ ~FetchCatches(collector_name, result.outcome),
                        log |-> got]
       IN /\ gets' = [gets EXCEPT ![f_pc] = @ + 1]
          /\ IF outcome = "ok" /\ f_pc = "repomd" /\ Truthy(href)
             THEN /\ f_pc' = "primary"
                  /\ attempt' = 0
                  /\ net_log' = got
                  /\ UNCHANGED fetch_results
             ELSE IF outcome # "ok" /\ Retries(collector_name, attempt)
             THEN /\ net_log' = Append(got, SleepEvent(f_pc, attempt, Backoff(attempt)))
                  /\ attempt' = attempt + 1
                  /\ UNCHANGED <<f_pc, fetch_results>>
             ELSE /\ fetch_results' = Append(fetch_results, finished)
                  /\ f_pc' = "idle"
                  /\ attempt' = 0
                  /\ net_log' = <<>>
    /\ UNCHANGED <<db_vars, call_vars, hist_vars, enr_vars, col_vars, main_vars, conc_vars, calc_vars, demo_vars>>

\* The specification of the fetch alone: any answers of the two URLs, any
\* manifest, called MaxFetches times by any of the three fetchers.

RECURSIVE SeqsOfLen(_, _)
SeqsOfLen(S, n) ==
    IF n = 0 THEN {<<>>}
    ELSE {Append(q, x) : q \in SeqsOfLen(S, n - 1), x \in S}

FetchManifests ==
    {Manifest, ManifestWithoutPrimary,
     [wellformed |-> FALSE, entries |-> <<>>],
     [wellformed |-> TRUE,
      entries |-> <<[ns |-> FALSE, type |-> "primary", href |-> "repodata/primary.xml.gz"]>>],
     [wellformed |-> TRUE,
      entries |-> <<[ns |-> TRUE, type |-> "primary", href |-> NOELEM],
                    [ns |-> TRUE, type |-> "primary", href |-> "repodata/primary.xml.zst"]>>],
     [wellformed |-> TRUE,
      entries |-> <<[ns |-> TRUE, type |-> "primary", href |-> MISSING]>>]}

FetchPayloads ==
    {GzipPayload, TruncatedPayload, [format |-> "zstd", intact |-> TRUE]}

InitFetch ==
    /\ table = {}
    /\ tx = {}
    /\ conn = "none"
    /\ next_id = 1
    /\ now = 1
    /\ db_pc = "idle"
    /\ packages = <<>>
    /\ repository_id = 1
    /\ idx = 1
    /\ saved_count = 0
    /\ batch_log = <<>>
    /\ calls = <<>>
    /\ offered = {}
    /\ fail_at = 0
    /\ enr_pc = "idle"
    /\ pkg_i = 1
    /\ collector_name \in {"fedora", "openeuler", "repodata_fetcher"}
    /\ distribution_version = "40"
    /\ registry = NoRegistry
    /\ enrich_log = <<>>
    /\ \E n1 \in SeqsOfLen({"ok", "timeout", "error"}, NetLen),
          n2 \in {GoodNet, FlakyNet, DeadNet, <<"error", "error", "ok">>},
          m \in FetchManifests, y \in FetchPayloads :
          config = [version_found |-> TRUE,
                    repos |-> <<Repo(RepoUrl, n1, m, n2, y, TRUE, <<CurlSrc>>)>>,
                    sources_template |-> ""]
    /\ tz = 0
    /\ src_i = 1
    /\ fetch_log = <<>>
    /\ pc = "idle"
    /\ repository = NoRepository
    /\ sync_logs = {}
    /\ final_status = NULL
    /\ exit_code = NULL
    /\ f_pc = "idle"
    /\ attempt = 0
    /\ gets = NoGets
    /\ net_log = <<>>
    /\ fetch_results = <<>>
    /\ writers = NoWriters
    /\ commit_log = <<>>
    /\ calc = NoCalc
    /\ demo = NoDemo

NextFetch ==
    \/ FetchBegin
    \/ FetchAttempt

SpecFetch == InitFetch /\ [][NextFetch]_vars

\* The same with the call running on once entered: each requests.get carries
\* a timeout and each sleep is finite, so the loop always takes its next step.
SpecFetchFair == SpecFetch /\ WF_vars(FetchAttempt)

----------------------------------------------------------------------------
\* Claims about the fetch (SpecFetch).

\* A GET that was not answered.
IsFailedGet(e) == e.kind = "get" /\ e.outcome # "ok"

\* C14: every network call of fetch, in every collector, is attempted again
\* after a timeout or a transport error, up to a bounded number of attempts,
\* with waits between the attempts that grow exponentially: in the log of a
\* finished call, a failed GET that is not the last allowed attempt is
\* followed by a sleep of 2^attempt seconds and by the next attempt of the
\* same request, and no request is attempted more than MaxRetries times.
C14_EveryCallRetried ==
    \A c \in 1..Len(fetch_results) :
        LET log == fetch_results[c].log
        IN \A k \in 1..Len(log) :
              /\ log[k].kind = "get" => log[k].attempt < MaxRetries
              /\ (IsFailedGet(log[k]) /\ log[k].attempt < MaxRetries - 1) =>
                    /\ k + 2 <= Len(log)
                    /\ log[k + 1] = SleepEvent(log[k].url, log[k].attempt,
                                               2 ^ log[k].attempt)
                    /\ log[k + 2].kind = "get"
                    /\ log[k + 2].url = log[k].url
                    /\ log[k + 2].attempt = log[k].attempt + 1

\* The last event of the log of a finished call: the GET that ended it.
LastGet(r) == r.log[Len(r.log)]

\* C15: when every attempt of a network call of fetch has failed, fetch
\* reports the failure to its caller as a value without package data, and no
\* exception leaves the call.
C15_FailureIsAValue ==
    \A c \in 1..Len(fetch_results) :
        LET r == fetch_results[c]
        IN /\ ~r.raised
           /\ IsFailedGet(LastGet(r)) =>
                 /\ r.packages = <<>>
                 /\ r.outcome \in {"manifest unreachable", "primary unreachable"}

\* C15's case: FedoraCollector gave up a request after its last attempt, and
\* another fetcher after its only one.
C15_Witness ==
    \E c \in 1..Len(fetch_results) :
        /\ IsFailedGet(LastGet(fetch_results[c]))
        /\ \/ collector_name = "fedora" /\ LastGet(fetch_results[c]).attempt = MaxRetries - 1
           \/ collector_name = "openeuler" /\ LastGet(fetch_results[c]).url = "primary"

\* A manifest that parses and has no entry of type primary.
NoPrimaryEntry(repomd) ==
    /\ repomd.wellformed
    /\ \A i \in 1..Len(repomd.entries) : repomd.entries[i].type # "primary"

\* The calls that received such a manifest.
GotNoPrimary ==
    {c \in 1..Len(fetch_results) :
        /\ NoPrimaryEntry(config.repos[1].repomd)
        /\ \E k \in 1..Len(fetch_results[c].log) :
              fetch_results[c].log[k] \in
                  {GetEvent("repomd", n, "ok") : n \in 0..MaxRetries}}

\* C16: when the manifest has no entry of type primary, fetch fails without
\* raising, without requesting a listing and without asking for the manifest
\* again, and every call with that manifest fails the same way.
C16_NoPrimaryFailsCleanly ==
    \A c \in GotNoPrimary :
        LET r == fetch_results[c]
        IN /\ ~r.raised
           /\ r.packages = <<>>
           /\ r.outcome = "no primary"
           /\ LastGet(r).url = "repomd" /\ LastGet(r).outcome = "ok"
           /\ \A k \in 1..Len(r.log) : r.log[k].url # "primary"
           /\ \A d \in GotNoPrimary :
                 /\ fetch_results[d].outcome = r.outcome
                 /\ fetch_results[d].packages = r.packages
                 /\ fetch_results[d].raised = r.raised

\* C16's case: two calls received the manifest without a primary entry.
C16_Witness ==
    /\ Cardinality(GotNoPrimary) = 2
    /\ collector_name \in {"fedora", "repodata_fetcher"}

----------------------------------------------------------------------------
\* Two runs inside save_packages_batch at the same time, each on its own
\* connection, against one InnoDB table.  A statement locks the index record
\* of its key until its transaction ends; a statement on a key another
\* transaction holds waits, and fails when the wait times out or when the
\* server resolves a deadlock against it (rolling its transaction back).

\* Longest list of a run.
MaxWriteLen == 2

Writers == {1, 2}
Other(w) == 3 - w

\* The rows of base with those of pend laid over them, key by key.
Overlay(base, pend) ==
    {r \in base : \A q \in pend : RowKey(q) # RowKey(r)} \cup pend

\* The keys the open transaction of run w holds.
Locked(w) == {RowKey(r) : r \in writers[w].pending}

\* Run w is at a statement whose key the other run holds.
Blocked(w) ==
    LET me == writers[w]
    IN /\ me.pc = "loop"
       /\ me.i <= Len(me.list)
       /\ <<repository_id, me.list[me.i].package_name, me.list[me.i].version>>
              \in Locked(Other(w))

\* get_cursor: the run connects and its transaction starts.
WriterConnect(w) ==
    /\ writers # NoWriters
    /\ writers[w].pc = "connect"
    /\ writers' = [writers EXCEPT ![w].pc = "loop"]
    /\ UNCHANGED <<commit_log, db_vars, call_vars, hist_vars, enr_vars, col_vars,
                   main_vars, fetch_vars, calc_vars, demo_vars>>

\* cursor.execute of the run's next record (db_manager.py 268-313).
WriterExecute(w) ==
    /\ writers # NoWriters
    /\ writers[w].pc = "loop"
    /\ writers[w].i <= Len(writers[w].list)
    /\ ~Blocked(w)
    /\ LET me == writers[w]
           p == me.list[me.i]
           ok == ~RowRejected(p)
           view == Overlay(table, me.pending)
           after == UpsertRow(view, p, repository_id, next_id, now)
       IN /\ writers' = [writers EXCEPT
                ![w].i = @ + 1,
                ![w].saved_count = IF ok THEN @ + 1 ELSE @,
                ![w].pending = IF ok THEN Overlay(@, after \ view) ELSE @,
                ![w].log = IF ok
                           THEN Append(@, [writer |-> w, record |-> p, ts |-> now])
                           ELSE @]
          /\ next_id' = IF ok /\ Conflicts(view, p, repository_id) = {}
                        THEN next_id + 1 ELSE next_id
    /\ now' = now + 1
    /\ UNCHANGED <<table, tx, conn, commit_log, call_vars, hist_vars, enr_vars,
                   col_vars, main_vars, fetch_vars, calc_vars, demo_vars>>

\* The wait for the lock times out: the statement fails, the inner except
\* logs it and the loop goes on; the transaction stays open.
WriterLockTimeout(w) ==
    /\ writers # NoWriters
    /\ Blocked(w)
    /\ writers' = [writers EXCEPT ![w].i = @ + 1]
    /\ UNCHANGED <<commit_log, db_vars, call_vars, hist_vars, enr_vars, col_vars,
                   main_vars, fetch_vars, calc_vars, demo_vars>>

\* Each run waits for a key the other holds: the server rolls the
\* transaction of run w back and fails its statement; the inner except logs
\* it and the loop goes on in a new transaction.
WriterDeadlock(w) ==
    /\ writers # NoWriters
    /\ Blocked(w)
    /\ Blocked(Other(w))
    /\ writers' = [writers EXCEPT ![w].i = @ + 1, ![w].pending = {}, ![w].log = <<>>]
    /\ UNCHANGED <<commit_log, db_vars, call_vars, hist_vars, enr_vars, col_vars,
                   main_vars, fetch_vars, calc_vars, demo_vars>>

\* Leaving the with block: commit (db_connection.py 82), then return.
WriterCommit(w) ==
    /\ writers # NoWriters
    /\ writers[w].pc = "loop"
    /\ writers[w].i > Len(writers[w].list)
    /\ table' = Overlay(table, writers[w].pending)
    /\ commit_log' = commit_log \o writers[w].log
    /\ writers' = [writers EXCEPT ![w].pc = "returned", ![w].pending = {}, ![w].log = <<>>]
    /\ UNCHANGED <<tx, conn, next_id, now, call_vars, hist_vars, enr_vars, col_vars,
                   main_vars, fetch_vars, calc_vars, demo_vars>>

\* The records of run w: the keys are shared, the other fields tell the runs
\* apart.
WriterRecords(w) ==
    {Package(n, "1.0-1", "", "", NoNum,
             IF w = 1 THEN "2.0" ELSE "1.5", NoNum,
             IF w = 1 THEN "C" ELSE "Rust") : n \in {"curl", "zlib"}}

WriterInit(list) ==
    [pc |-> "connect", list |-> list, i |-> 1, pending |-> {}, log |-> <<>>,
     saved_count |-> 0]

InitConcurrent ==
    /\ table \in {{}, PriorRows}
    /\ tx = {}
    /\ conn = "none"
    /\ next_id = 3
    /\ now = 1
    /\ db_pc = "idle"
    /\ packages = <<>>
    /\ repository_id = 1
    /\ idx = 1
    /\ saved_count = 0
    /\ batch_log = <<>>
    /\ calls = <<>>
    /\ offered = {}
    /\ fail_at = 0
    /\ enr_pc = "idle"
    /\ pkg_i = 1
    /\ collector_name = "fedora"
    /\ distribution_version = "40"
    /\ registry = NoRegistry
    /\ enrich_log = <<>>
    /\ config = NoConfig
    /\ tz = 0
    /\ src_i = 1
    /\ fetch_log = <<>>
    /\ pc = "idle"
    /\ repository = SaveRepository(NoRepository)
    /\ sync_logs = {}
    /\ final_status = NULL
    /\ exit_code = NULL
    /\ f_pc = "idle"
    /\ attempt = 0
    /\ gets = NoGets
    /\ net_log = <<>>
    /\ fetch_results = <<>>
    /\ \E l1 \in SeqsUpTo(WriterRecords(1), MaxWriteLen) \ {<<>>},
          l2 \in SeqsUpTo(WriterRecords(2), MaxWriteLen) \ {<<>>} :
          writers = <<WriterInit(l1), WriterInit(l2)>>
    /\ commit_log = <<>>
    /\ calc = NoCalc
    /\ demo = NoDemo

NextConcurrent ==
    \E w \in Writers :
        \/ WriterConnect(w)
        \/ WriterExecute(w)
        \/ WriterLockTimeout(w)
        \/ WriterDeadlock(w)
        \/ WriterCommit(w)

SpecConcurrent == InitConcurrent /\ [][NextConcurrent]_vars

----------------------------------------------------------------------------
\* Claims about concurrent runs (SpecConcurrent).

\* The committed statements on the key of row r.
WritesOn(r) ==
    {k \in 1..Len(commit_log) :
        <<repository_id, commit_log[k].record.package_name,
          commit_log[k].record.version>> = RowKey(r)}

\* Both runs have returned.
BothReturned ==
    writers # NoWriters /\ \A w \in Writers : writers[w].pc = "returned"

\* C17: when two runs upsert records with the same key concurrently, in
\* any interleaving the table ends with exactly one row for the key, and
\* every field of that row is that of the record written last; no row mixes
\* fields of the two runs.
C17_LastWriteWins ==
    /\ \A r1, r2 \in table : RowKey(r1) = RowKey(r2) => r1 = r2
    /\ BothReturned =>
          /\ \A k \in 1..Len(commit_log) :
                \E r \in table : k \in WritesOn(r)
          /\ \A r \in table :
                WritesOn(r) # {} =>
                    LET last == CHOOSE k \in WritesOn(r) : \A j \in WritesOn(r) : j <= k
                    IN r = NewRow(commit_log[last].record, repository_id, r.id,
                                  commit_log[last].ts)

\* C17's case: both runs committed a record of the same key, and their
\* transactions overlapped (the run that committed first made a statement
\* after one of the other run's).
C17_Witness ==
    /\ BothReturned
    /\ \E a, b, c \in 1..Len(commit_log) :
          /\ a < b
          /\ commit_log[a].writer # commit_log[b].writer
          /\ commit_log[a].record.package_name = commit_log[b].record.package_name
          /\ commit_log[c].writer = commit_log[a].writer
          /\ \E d \in 1..Len(commit_log) :
                /\ commit_log[d].writer = commit_log[b].writer
                /\ commit_log[d].ts < commit_log[c].ts

----------------------------------------------------------------------------
\* The specification of the libyear step: one record as a collector builds it
\* (no upstream version, no upstream date), with or without a build date and
\* a GitHub homepage, against registries that answer with a version, with or
\* without its date, or not at all.

LibyearInputs ==
    {Package("curl", v, w, "", d, NULL, NoNum, NULL) :
        v \in {"8.4.0-1", "1.0-1", "1.0.30-1", ""},
        w \in {"", "https://github.com/curl/curl"},
        d \in {NoNum, Some(19675), Some(19723), Some(19800)}}

LibyearGhStates ==
    [fail : {{}, {"tag"}, {"latest", "tag", "repo"}},
     tag_name : {"1.3.0", "v8.5.0", "1.5"},
     published_at : {NULL, "2024-01-01T00:00:00Z"},
     language : {NULL}]

LibyearPypiStates ==
    {PypiDown, [fail |-> {}, version |-> "3.1", upload_time |-> "2023-06-01T12:00:00"]}

InitLibyear ==
    /\ table = {}
    /\ tx = {}
    /\ conn = "none"
    /\ next_id = 1
    /\ now = 1
    /\ db_pc = "idle"
    /\ packages \in {<<p>> : p \in LibyearInputs}
    /\ repository_id = 1
    /\ idx = 1
    /\ saved_count = 0
    /\ batch_log = <<>>
    /\ calls = <<>>
    /\ offered = {}
    /\ fail_at = 0
    /\ config = NoConfig
    /\ tz = 0
    /\ src_i = 1
    /\ fetch_log = <<>>
    /\ pc = "idle"
    /\ repository = NoRepository
    /\ sync_logs = {}
    /\ final_status = NULL
    /\ exit_code = NULL
    /\ f_pc = "idle"
    /\ attempt = 0
    /\ gets = NoGets
    /\ net_log = <<>>
    /\ fetch_results = <<>>
    /\ writers = NoWriters
    /\ commit_log = <<>>
    /\ calc = NoCalc
    /\ demo = NoDemo
    /\ enr_pc = "enrich"
    /\ pkg_i = 1
    /\ collector_name = "fedora"
    /\ distribution_version = "40"
    /\ \E g \in LibyearGhStates, y \in LibyearPypiStates :
          registry = [gh |-> [s \in Slugs |-> g], pypi |-> [n \in Names |-> y]]
    /\ enrich_log = <<>>

SpecLibyear == InitLibyear /\ [][NextEnrich]_vars

----------------------------------------------------------------------------
\* Claims about the libyear fields of an enriched record (SpecLibyear).

\* The record has both release dates.
BothDates(p) == p.system_release_date # NoNum /\ p.upstream_release_date # NoNum

\* The record has two versions that parse, and so compare.
ComparableVersions(p) ==
    ParseVersion(Get(p, "version")).ok /\ ParseVersion(Get(p, "upstream_version")).ok

\* C18: an enriched record has a null libyear if and only if it has neither
\* both release dates nor a pair of versions that parse and compare; in every
\* other case its libyear is a number.
C18_LibyearNullIffUnknown ==
    \A k \in 1..Len(enrich_log) :
        LET p == enrich_log[k].pkg
        IN (p.libyear = NoNum) <=> ~(BothDates(p) \/ ComparableVersions(p))

\* C19: every record handed to save_packages_batch has is_outdated true if
\* and only if its stored libyear is a number greater than 0.
C19_OutdatedIffPositive ==
    enr_pc = "saving" =>
        \A i \in 1..Len(packages) :
            packages[i].is_outdated
                <=> (packages[i].libyear # NoNum /\ packages[i].libyear[1] > 0)

----------------------------------------------------------------------------
\* The specification of calculate_libyear alone: any call with versions that
\* parse or do not, and dates that are given or not.

CalcVersions == {"8.4.0-1", "1.0.30-1", "1.2.0", "1.3.0", "1.3.5", "7.0", "", NULL}
CalcDates == {NoNum, Some(19509), Some(19675), Some(19723)}

\* One call of calculate_libyear (libyear_calculator.py 19-63).
Calculate ==
    /\ \E cv, lv \in CalcVersions, dc, dl \in CalcDates :
          calc' = <<[current_version |-> cv, latest_version |-> lv,
                     release_date_current |-> dc, release_date_latest |-> dl,
                     result |-> calculate_libyear(cv, lv, dc, dl)]>>
    /\ UNCHANGED <<db_vars, call_vars, hist_vars, enr_vars, col_vars, main_vars,
                   fetch_vars, conc_vars, demo_vars>>

InitCalc ==
    /\ table = {}
    /\ tx = {}
    /\ conn = "none"
    /\ next_id = 1
    /\ now = 1
    /\ db_pc = "idle"
    /\ packages = <<>>
    /\ repository_id = 1
    /\ idx = 1
    /\ saved_count = 0
    /\ batch_log = <<>>
    /\ calls = <<>>
    /\ offered = {}
    /\ fail_at = 0
    /\ config = NoConfig
    /\ tz = 0
    /\ src_i = 1
    /\ fetch_log = <<>>
    /\ pc = "idle"
    /\ repository = NoRepository
    /\ sync_logs = {}
    /\ final_status = NULL
    /\ exit_code = NULL
    /\ f_pc = "idle"
    /\ attempt = 0
    /\ gets = NoGets
    /\ net_log = <<>>
    /\ fetch_results = <<>>
    /\ writers = NoWriters
    /\ commit_log = <<>>
    /\ calc = NoCalc
    /\ demo = NoDemo
    /\ enr_pc = "saving"
    /\ pkg_i = 1
    /\ collector_name = "fedora"
    /\ distribution_version = "40"
    /\ registry = NoRegistry
    /\ enrich_log = <<>>

NextCalc == Calculate

SpecCalc == InitCalc /\ [][NextCalc]_vars

----------------------------------------------------------------------------
\* Claims about calculate_libyear (SpecCalc).

\* The call had both dates.
CalledWithDates(c) == c.release_date_current # NoNum /\ c.release_date_latest # NoNum

\* C20: with both release dates, calculate_libyear returns the difference in
\* whole days (latest minus current) divided by 365.25, whatever the two
\* version strings are: negative when the latest date is the earlier one,
\* never clamped, and 0.0 when the dates are equal.
C20_DatesGiveSignedDayDifference ==
    \A k \in 1..Len(calc) :
        LET c == calc[k]
            days == c.release_date_latest[1] - c.release_date_current[1]
        IN CalledWithDates(c) =>
              /\ c.result.num * 1461 = days * 4 * c.result.den
              /\ c.result.eps = 0
              /\ days < 0 => c.result.num < 0
              /\ days = 0 => c.result.num = 0 /\ ~Positive(c.result)

\* C20's case: a call with both dates, the latest one the earlier, and a
\* version that does not parse, has returned a negative number.
C20_Witness ==
    /\ calc # NoCalc
    /\ CalledWithDates(calc[1])
    /\ calc[1].release_date_latest[1] < calc[1].release_date_current[1]
    /\ ~ParseVersion(calc[1].current_version).ok
    /\ calc[1].result.num < 0

\* max(0, 1.0 * major_diff + 0.1 * minor_diff + 0.01 * patch_diff) of two
\* parsed versions, in thousandths of a year.
DecimalEstimate(vc, vl) ==
    LET est == (vl.major - vc.major) * 1000 + (vl.minor - vc.minor) * 100
               + (vl.micro - vc.micro) * 10
    IN IF est > 0 THEN est ELSE 0

\* C21: without both release dates and with two versions that parse,
\* calculate_libyear returns 0.0 when the current version is greater than or
\* equal to the latest one, and otherwise exactly max(0, 1.0 * major_diff +
\* 0.1 * minor_diff + 0.01 * patch_diff), which is never negative (1.2.0
\* against 1.3.5 gives 0.15).
C21_HeuristicValue ==
    \A k \in 1..Len(calc) :
        LET c == calc[k]
            vc == ParseVersion(c.current_version)
            vl == ParseVersion(c.latest_version)
        IN (~CalledWithDates(c) /\ vc.ok /\ vl.ok) =>
              /\ c.result.num >= 0
              /\ c.result.eps = 0
              /\ c.result.num * 1000
                    = c.result.den * (IF VersionGE(vc, vl) THEN 0
                                      ELSE DecimalEstimate(vc, vl))

----------------------------------------------------------------------------
\* More claims about the parser (SpecParse).

\* The UTC calendar date of an epoch second, as a day number.
UtcDate(ts) == ts \div 86400

\* C22: for every package element with a build timestamp, the record's
\* system_release_date is the UTC calendar date of that epoch second,
\* whatever the time zone of the machine that runs the parser.
C22_BuildDateIsUtc ==
    Parsed =>
        \A j \in 1..Len(packages) :
            \A i \in OriginsOf(packages[j]) :
                (Truthy(Listing[i].build) /\ ParseInt(Listing[i].build) # NoNum) =>
                    packages[j].system_release_date
                        = Some(UtcDate(ParseInt(Listing[i].build)[1]))

----------------------------------------------------------------------------
\* More claims about the fetch (SpecFetch).

\* The format the extension of a location stands for; NULL for any other
\* extension.
FormatOfExtension(href) ==
    CASE href = "repodata/primary.xml.gz" -> "gzip"
      [] href = "repodata/primary.xml.bz2" -> "bz2"
      [] href = "repodata/primary.xml.xz" -> "xz"
      [] href = "repodata/primary.xml.zst" -> "zstd"
      [] OTHER -> NULL

\* The calls that downloaded the listing.
GotPrimary ==
    {c \in 1..Len(fetch_results) :
        LastGet(fetch_results[c]).url = "primary" /\ LastGet(fetch_results[c]).outcome = "ok"}

\* C23: the decompression applied to the downloaded listing is the one of
\* the extension of its location (gzip for .gz, bzip2 for .bz2, xz for .xz,
\* zstd for .zst, none for any other extension): the listing is decompressed
\* exactly when its bytes are an intact stream of that format.
C23_DecompressionByExtension ==
    \A c \in GotPrimary :
        LET repo == config.repos[1]
            fmt == FormatOfExtension(PrimaryLocation(collector_name, repo.repomd))
        IN (fetch_results[c].outcome # "decompress failed")
              <=> (fmt = NULL \/ (repo.payload.format = fmt /\ repo.payload.intact))

----------------------------------------------------------------------------
\* More claims about the enrichment (SpecEnrich).

\* The record's lookup at GitHub was made and found a latest release that
\* has a publish timestamp: no request fails, the release has a tag that is
\* more than the version prefix, and a timestamp that can be read.
FoundDatedRelease(e) ==
    LET g == registry.gh["curl/curl"]
    IN /\ \E k \in 1..Len(e.lookups) : e.lookups[k] = "github.latest"
       /\ g.fail = {}
       /\ Truthy(g.tag_name) /\ Truthy(LstripV(g.tag_name))
       /\ Truthy(g.published_at) /\ ParseIsoDate(g.published_at) # NoNum

\* C24: when the GitHub lookup finds a latest release that has a publish
\* timestamp, the record gets the tag without its leading "v" as upstream
\* version and the date of the publish timestamp as upstream release date,
\* whether or not the tag has the prefix.
C24_ReleaseGivesVersionAndDate ==
    \A k \in 1..Len(enrich_log) :
        LET e == enrich_log[k]
            g == registry.gh["curl/curl"]
        IN FoundDatedRelease(e) =>
              /\ e.pkg.upstream_version = LstripV(g.tag_name)
              /\ e.pkg.upstream_release_date = ParseIsoDate(g.published_at)

----------------------------------------------------------------------------
\* Claims about the fields of a parsed record (SpecParse).

\* An attribute of the version element as text: empty when the element or the
\* attribute is not there.
AttrText(a) == IF a \in {NOELEM, MISSING, NULL} THEN "" ELSE a

\* C25: the version of every parsed record is the element's ver, followed by
\* "-" and its rel when the element has a non-empty release, and exactly ver
\* when the release is absent or empty.
C25_VersionIsVerDashRel ==
    Parsed =>
        \A j \in 1..Len(packages) :
            \A i \in OriginsOf(packages[j]) :
                packages[j].version
                    = IF AttrText(Listing[i].rel) # ""
                      THEN AttrText(Listing[i].ver) \o "-" \o AttrText(Listing[i].rel)
                      ELSE AttrText(Listing[i].ver)

\* An element without a name: no name element, or one without text.
HasNoName(e) == e.name \in {NOELEM, NULL, ""}

\* The listing without its nameless elements.
Named(elems) == SelectSeq(elems, LAMBDA e : ~HasNoName(e))

\* The records the collector's parser makes of a listing.
CollectorParse(elems) ==
    IF collector_name = "fedora"
    THEN FedoraParseRpmMetadata(elems, config.sources_template, distribution_version, tz)
    ELSE OpenEulerParseRpmMetadata(elems, config.sources_template,
                                   distribution_version, tz)

\* C26: a package element without a name yields no record and raises no
\* exception, and the records of the listing are those of the listing
\* without that element; in the collectors' parsers and in RepodataParser.
C26_NamelessIsDropped ==
    /\ Parsed =>
          /\ \A j \in 1..Len(packages) : ~HasNoName([name |-> packages[j].package_name])
          /\ \A i \in 1..Len(Listing) :
                HasNoName(Listing[i]) =>
                    ParseElement(Listing[i], Listing[i].ns, config.sources_template,
                                 distribution_version, tz).kind = "skip"
          /\ packages = CollectorParse(Named(Listing))
    /\ demo # NoDemo =>
          /\ \A j \in 1..Len(demo[1]) : ~HasNoName(demo[1][j])
          /\ demo[1] = DemoParse(Named(Listing))

\* C26's case: both parsers have parsed a listing that holds a source
\* element without a name next to elements they made records of.
C26_Witness ==
    /\ Parsed
    /\ demo # NoDemo
    /\ \E i \in 1..Len(Listing) :
          HasNoName(Listing[i]) /\ Listing[i].arch = "src" /\ Listing[i].ns
    /\ Len(packages) >= 1
    /\ Len(demo[1]) >= 1

----------------------------------------------------------------------------
\* Claims about _fetch_with_retry (SpecFetchFair, FedoraCollector's calls).

\* The logs of the calls: those that returned and the one under way.
FetchLogs == {fetch_results[c].log : c \in 1..Len(fetch_results)} \cup {net_log}

\* A GET is the last attempt of its request in a log that goes on after it.
LastAttemptOfRequest(log, k) ==
    k < Len(log) => log[k + 1].kind = "get" /\ log[k + 1].url # log[k].url

\* What _fetch_with_retry does within one log.
RetryDiscipline(log) ==
    \A k \in 1..Len(log) :
        /\ log[k].kind = "get" => log[k].attempt < MaxRetries
        \* the first response is returned: no further attempt of the request
        /\ (log[k].kind = "get" /\ log[k].outcome = "ok") => LastAttemptOfRequest(log, k)
        \* a failed attempt that is not the last: backoff_factor ** attempt
        \* seconds of sleep, then the next attempt
        /\ (IsFailedGet(log[k]) /\ log[k].attempt < MaxRetries - 1 /\ k < Len(log)) =>
              /\ log[k + 1] = SleepEvent(log[k].url, log[k].attempt, 2 ^ log[k].attempt)
              /\ k + 1 < Len(log) =>
                    log[k + 2].kind = "get" /\ log[k + 2].url = log[k].url
                    /\ log[k + 2].attempt = log[k].attempt + 1
        \* the last attempt failed: no sleep, no further attempt
        /\ (IsFailedGet(log[k]) /\ log[k].attempt = MaxRetries - 1) => k = Len(log)
        /\ log[k].kind = "sleep" => k > 1 /\ IsFailedGet(log[k - 1])

\* A call that returned after a request it gave up got nothing.
GaveUpReturnsNone ==
    \A c \in 1..Len(fetch_results) :
        LET r == fetch_results[c]
        IN (IsFailedGet(LastGet(r)) /\ LastGet(r).attempt = MaxRetries - 1) =>
              /\ r.packages = <<>>
              /\ r.outcome \in {"manifest unreachable", "primary unreachable"}
              /\ ~r.raised

\* C27: _fetch_with_retry makes at most max_retries attempts and then
\* terminates: it returns the first response without a further attempt,
\* sleeps backoff_factor^k seconds after failed attempt k before the next
\* one, does not sleep after the last attempt, and returns None once all
\* attempts have failed.
C27_RetryBoundedAndTerminates ==
    /\ [](collector_name = "fedora" =>
             /\ \A log \in FetchLogs : RetryDiscipline(log)
             /\ GaveUpReturnsNone
             /\ attempt < MaxRetries)
    /\ (f_pc # "idle") ~> (f_pc = "idle")

\* C27's case: a call of FedoraCollector got the manifest at its second
\* attempt and gave up the listing after its third.
C27_Witness ==
    /\ collector_name = "fedora"
    /\ \E c \in 1..Len(fetch_results) :
          LET log == fetch_results[c].log
          IN /\ Len(log) >= 8
             /\ log[1] = GetEvent("repomd", 0, log[1].outcome) /\ IsFailedGet(log[1])
             /\ log[2] = SleepEvent("repomd", 0, 1)
             /\ log[3] = GetEvent("repomd", 1, "ok")
             /\ log[4].url = "primary"
             /\ IsFailedGet(LastGet(fetch_results[c]))
             /\ LastGet(fetch_results[c]).attempt = MaxRetries - 1
             /\ fetch_results[c].outcome = "primary unreachable"

----------------------------------------------------------------------------
\* Claims about the choice of the lookups (SpecEnrich).

\* The lookups of an entry of the enrichment log, as a set.
LookupsOf(e) == {e.lookups[k] : k \in 1..Len(e.lookups)}

\* C28: for a record without upstream version, the GitHub lookup is made
\* whenever the record's source URL or its homepage holds an owner/repo slug:
\* also when the source URL is non-empty and holds none while the homepage
\* holds one.
C28_SlugFromSourceOrHomepage ==
    \A k \in 1..Len(enrich_log) :
        LET e == enrich_log[k]
        IN (/\ ~Truthy(Get(e.before, "upstream_version"))
            /\ \/ GithubSlug(Get(e.before, "source_url")) # NULL
               \/ GithubSlug(Get(e.before, "website")) # NULL)
              => "github.latest" \in LookupsOf(e)

\* C29: when the PyPI lookup supplies the upstream version of a record that
\* has no language (none from the parser, none from GitHub), the record's
\* language is "Python".
C29_PypiMarksPython ==
    \A k \in 1..Len(enrich_log) :
        LET e == enrich_log[k]
        IN (/\ "upstream_version" \in e.pypi
            /\ ~Truthy(Get(e.before, "language"))
            /\ "language" \notin e.github)
              => e.pkg.language = "Python"

----------------------------------------------------------------------------
\* More claims about the run (Spec).

\* C30: starting a run for a repository that has a recorded last sync time
\* changes only its last sync status, to running: the last sync time and the
\* id stay as they were until the run's final status update.
C30_StartKeepsLastSyncTime ==
    [][(repository.exists /\ Truthy(repository.last_sync_time) /\ pc' # "done") =>
          /\ repository'.id = repository.id
          /\ repository'.last_sync_time = repository.last_sync_time
          /\ (pc = "start" /\ pc' = "collect") =>
                repository'.last_sync_status = "running"]_vars

====
